---- MODULE Spec2Model ----
(***************************************************************************)
(* Trace correlation engine of check-gpt.                                  *)
(*                                                                         *)
(* Two generations of the correlator are modelled:                         *)
(*   - trace.Manager       (mutex guarded node list, one control loop),    *)
(*   - trace.TraceManager  (node-operation goroutine, pending API message  *)
(*                          and a 500 ms node timeout).                    *)
(* Both consume the server's buffered message channel.                     *)
(***************************************************************************)
EXTENDS Integers, Sequences, FiniteSets, TLC

\* ------------------------------------------------------------------------
\* Bounds of the model
\* ------------------------------------------------------------------------

\* number of messages the producers (image handler, SendPostRequest) send
MaxSends == 3

\* longest header field handed to getNodeSignature
MaxFieldLen == 1

\* most pattern tokens joined into one user agent for GetPlatformInfo
MaxTokens == 2

\* number of bait-image requests the server handles
MaxRequests == 2

\* the most test configs handed to TestAllChannels
MaxConfigs == 2

\* the highest port a port search starts from
MaxStartPort == 1

\* ------------------------------------------------------------------------
\* Program constants
\* ------------------------------------------------------------------------

\* capacity of Server.msgChan
MsgChanCap == 100

\* config.getOpenAICIDR: the vendor blocks, each <<address, prefix bits>>
OPENAICIDR ==
  << <<(<<23, 102, 140, 112>>), 28>>, <<(<<13, 66, 11, 96>>), 28>>,
     <<(<<104, 210, 133, 240>>), 28>>, <<(<<70, 37, 60, 192>>), 28>>,
     <<(<<20, 97, 188, 144>>), 28>>, <<(<<20, 161, 76, 48>>), 28>>,
     <<(<<52, 234, 32, 208>>), 28>>, <<(<<52, 156, 132, 32>>), 28>>,
     <<(<<40, 84, 220, 192>>), 28>>, <<(<<23, 98, 178, 64>>), 28>>,
     <<(<<51, 8, 155, 32>>), 28>>, <<(<<20, 246, 77, 240>>), 28>>,
     <<(<<172, 178, 141, 0>>), 28>>, <<(<<172, 178, 141, 192>>), 28>>,
     <<(<<40, 84, 180, 128>>), 28>> >>

\* ------------------------------------------------------------------------
\* Strings as character sequences (user agents are matched by substring)
\* ------------------------------------------------------------------------

UpperChars ==
  << "A", "B", "C", "D", "E", "F", "G", "H", "I", "J", "K", "L", "M",
     "N", "O", "P", "Q", "R", "S", "T", "U", "V", "W", "X", "Y", "Z" >>

LowerChars ==
  << "a", "b", "c", "d", "e", "f", "g", "h", "i", "j", "k", "l", "m",
     "n", "o", "p", "q", "r", "s", "t", "u", "v", "w", "x", "y", "z" >>

\* strings.ToLower on one byte
ToLowerChar(c) ==
  IF \E i \in 1..26 : UpperChars[i] = c
    THEN LowerChars[CHOOSE i \in 1..26 : UpperChars[i] = c]
    ELSE c

\* strings.ToLower
ToLower(s) == [i \in 1..Len(s) |-> ToLowerChar(s[i])]

\* strings.Contains
Contains(s, sub) ==
  \E i \in 0..(Len(s) - Len(sub)) : SubSeq(s, i + 1, i + Len(sub)) = sub

\* ------------------------------------------------------------------------
\* util.GetPlatformInfo
\* ------------------------------------------------------------------------

Pow2(n) == IF n = 0 THEN 1 ELSE IF n = 1 THEN 2 ELSE IF n = 2 THEN 4
           ELSE IF n = 3 THEN 8 ELSE IF n = 4 THEN 16 ELSE IF n = 5 THEN 32
           ELSE IF n = 6 THEN 64 ELSE IF n = 7 THEN 128 ELSE 256

\* number of network bits of a prefix that fall into octet k
OctetBits(bits, k) ==
  IF bits - 8 * (k - 1) <= 0 THEN 0
  ELSE IF bits - 8 * (k - 1) >= 8 THEN 8
  ELSE bits - 8 * (k - 1)

\* util.IsIPInCidr: ipNet.Contains(net.ParseIP(ip)); an address that does
\* not parse (modelled as the empty tuple) is in no block
IsIPInCidr(ip, cidr) ==
  /\ Len(ip) = 4
  /\ \A k \in 1..4 :
       ip[k] \div Pow2(8 - OctetBits(cidr[2], k))
         = cidr[1][k] \div Pow2(8 - OctetBits(cidr[2], k))

\* the table with the Python entry moved to the front
platformPatternsPythonFirst ==
  << [name |-> "Python", caseSensitive |-> FALSE,
      patterns |-> << <<"p", "y", "t", "h", "o", "n">>,
                      <<"r", "e", "q", "u", "e", "s", "t", "s">> >>],
     [name |-> "Azure", caseSensitive |-> TRUE,
      patterns |-> << <<"I", "P", "S">>, <<"A", "z", "u", "r", "e">> >>],
     [name |-> "OpenAI", caseSensitive |-> TRUE,
      patterns |-> << <<"O", "p", "e", "n", "A", "I">> >>],
     [name |-> "Node.js", caseSensitive |-> FALSE,
      patterns |-> << <<"n", "o", "d", "e">>, <<"g", "o", "t">>,
                      <<"a", "x", "i", "o", "s">>,
                      <<"f", "e", "t", "c", "h">> >>],
     [name |-> "Go", caseSensitive |-> FALSE,
      patterns |-> << <<"g", "o", "-", "h", "t", "t", "p">>,
                      <<"f", "a", "s", "t", "h", "t", "t", "p">> >>],
     [name |-> "Java", caseSensitive |-> FALSE,
      patterns |-> << <<"j", "a", "v", "a">>,
                      <<"o", "k", "h", "t", "t", "p">> >>],
     [name |-> "PHP", caseSensitive |-> FALSE,
      patterns |-> << <<"p", "h", "p">>,
                      <<"l", "a", "r", "a", "v", "e", "l">>,
                      <<"s", "y", "m", "f", "o", "n", "y">> >>] >>

\* the platformPatterns table: name, patterns, caseSensitive
platformPatterns ==
  << [name |-> "Azure", caseSensitive |-> TRUE,
      patterns |-> << <<"I", "P", "S">>, <<"A", "z", "u", "r", "e">> >>],
     [name |-> "OpenAI", caseSensitive |-> TRUE,
      patterns |-> << <<"O", "p", "e", "n", "A", "I">> >>],
     [name |-> "Python", caseSensitive |-> FALSE,
      patterns |-> << <<"p", "y", "t", "h", "o", "n">>,
                      <<"r", "e", "q", "u", "e", "s", "t", "s">> >>],
     [name |-> "Node.js", caseSensitive |-> FALSE,
      patterns |-> << <<"n", "o", "d", "e">>, <<"g", "o", "t">>,
                      <<"a", "x", "i", "o", "s">>,
                      <<"f", "e", "t", "c", "h">> >>],
     [name |-> "Go", caseSensitive |-> FALSE,
      patterns |-> << <<"g", "o", "-", "h", "t", "t", "p">>,
                      <<"f", "a", "s", "t", "h", "t", "t", "p">> >>],
     [name |-> "Java", caseSensitive |-> FALSE,
      patterns |-> << <<"j", "a", "v", "a">>,
                      <<"o", "k", "h", "t", "t", "p">> >>],
     [name |-> "PHP", caseSensitive |-> FALSE,
      patterns |-> << <<"p", "h", "p">>,
                      <<"l", "a", "r", "a", "v", "e", "l">>,
                      <<"s", "y", "m", "f", "o", "n", "y">> >>] >>

\* every entry matched without regard to case
PlatformMatchesAnyCase(platform, userAgent) ==
  \E j \in 1..Len(platform.patterns) :
     Contains(ToLower(userAgent), ToLower(platform.patterns[j]))

\* one table entry against a user agent
PlatformMatches(platform, userAgent) ==
  \E j \in 1..Len(platform.patterns) :
     IF platform.caseSensitive
       THEN Contains(userAgent, platform.patterns[j])
       ELSE Contains(ToLower(userAgent), ToLower(platform.patterns[j]))

\* The labels are records: service is the text before the suffix "服务"
\* ("OpenAI", "可能是OpenAI" written "maybe-OpenAI", "未知" written
\* "unknown"), userAgent the raw user agent of the last-resort label.
Label(service, userAgent) == [service |-> service, userAgent |-> userAgent]

\* the patterns consulted before the address blocks
GetPlatformInfoPatternsFirst(userAgent, ip, cidr) ==
  IF userAgent # <<>> /\ \E p \in 1..Len(platformPatterns) :
                           PlatformMatches(platformPatterns[p], userAgent)
    THEN LET p == CHOOSE q \in 1..Len(platformPatterns) :
                    /\ PlatformMatches(platformPatterns[q], userAgent)
                    /\ \A r \in 1..(q - 1) :
                         ~PlatformMatches(platformPatterns[r], userAgent)
             name == platformPatterns[p].name
         IN Label(IF name = "OpenAI" THEN "maybe-OpenAI" ELSE name, <<>>)
  ELSE IF \E c \in 1..Len(cidr) : IsIPInCidr(ip, cidr[c])
    THEN Label("OpenAI", <<>>)
  ELSE IF userAgent = <<>>
    THEN Label("unknown", <<>>)
  ELSE Label("unknown,User-Agent:", userAgent)

\* the OpenAI entry labelled without its "maybe" prefix
GetPlatformInfoNoMaybe(userAgent, ip, cidr) ==
  IF \E c \in 1..Len(cidr) : IsIPInCidr(ip, cidr[c])
    THEN Label("OpenAI", <<>>)
  ELSE IF userAgent = <<>>
    THEN Label("unknown", <<>>)
  ELSE IF \E p \in 1..Len(platformPatterns) :
            PlatformMatches(platformPatterns[p], userAgent)
    THEN LET p == CHOOSE q \in 1..Len(platformPatterns) :
                    /\ PlatformMatches(platformPatterns[q], userAgent)
                    /\ \A r \in 1..(q - 1) :
                         ~PlatformMatches(platformPatterns[r], userAgent)
         IN Label(platformPatterns[p].name, <<>>)
  ELSE Label("unknown,User-Agent:", userAgent)

\* the last-resort label carrying the lower-cased user agent
GetPlatformInfoLowerRaw(userAgent, ip, cidr) ==
  IF \E c \in 1..Len(cidr) : IsIPInCidr(ip, cidr[c])
    THEN Label("OpenAI", <<>>)
  ELSE IF userAgent = <<>>
    THEN Label("unknown", <<>>)
  ELSE IF \E p \in 1..Len(platformPatterns) :
            PlatformMatches(platformPatterns[p], userAgent)
    THEN LET p == CHOOSE q \in 1..Len(platformPatterns) :
                    /\ PlatformMatches(platformPatterns[q], userAgent)
                    /\ \A r \in 1..(q - 1) :
                         ~PlatformMatches(platformPatterns[r], userAgent)
             name == platformPatterns[p].name
         IN Label(IF name = "OpenAI" THEN "maybe-OpenAI" ELSE name, <<>>)
  ELSE Label("unknown,User-Agent:", ToLower(userAgent))

GetPlatformInfo(userAgent, ip, cidr) ==
  IF \E c \in 1..Len(cidr) : IsIPInCidr(ip, cidr[c])
    THEN Label("OpenAI", <<>>)
  ELSE IF userAgent = <<>>
    THEN Label("unknown", <<>>)
  ELSE IF \E p \in 1..Len(platformPatterns) :
            PlatformMatches(platformPatterns[p], userAgent)
    THEN LET p == CHOOSE q \in 1..Len(platformPatterns) :
                    /\ PlatformMatches(platformPatterns[q], userAgent)
                    /\ \A r \in 1..(q - 1) :
                         ~PlatformMatches(platformPatterns[r], userAgent)
             name == platformPatterns[p].name
         IN Label(IF name = "OpenAI" THEN "maybe-OpenAI" ELSE name, <<>>)
  ELSE Label("unknown,User-Agent:", userAgent)

\* ------------------------------------------------------------------------
\* types.Message, types.RequestHeaders, types.Node
\* ------------------------------------------------------------------------

\* a nil *RequestHeaders
NilHeaders == [nil |-> TRUE]

RequestHeaders(ua, ff, time, ip) ==
  [UserAgent |-> ua, ForwardedFor |-> ff, Time |-> time, IP |-> ip]

Message(type, content, request, response, headers) ==
  [Type |-> type, Content |-> content, Request |-> request,
   Response |-> response, Headers |-> headers]

\* the zero value of types.Node
ZeroNode ==
  [IP |-> <<>>, Country |-> "", Time |-> 0, UserAgent |-> <<>>,
   RequestInfo |-> "", ForwardedFor |-> "", RequestCount |-> 0,
   IsNew |-> FALSE, NodeIndex |-> 0, RegionName |-> "", Org |-> "",
   ServerName |-> Label("", <<>>)]

\* ------------------------------------------------------------------------
\* Inputs of the model
\* ------------------------------------------------------------------------

UAGo == <<"G", "o", "-", "h", "t", "t", "p">>

UACurl == <<"c", "u", "r", "l">>

IPPlain == <<1, 2, 3, 4>>

IPVendor == <<23, 102, 140, 113>>

\* header tuples of the bait fetches: pairs that differ only in the
\* forwarded-for header, only in the user agent, only in the source IP
HeaderTuples ==
  { <<UAGo, "", IPPlain>>, <<UAGo, "10.0.0.1", IPPlain>>,
    <<UACurl, "", IPPlain>>, <<UAGo, "", IPVendor>> }

\* outcome payloads of SendPostRequest
ResponseTexts == {"resp1", "resp2"}

ErrorTexts == {"err1"}

\* runDetection: a nil error, and fmt.Errorf("context cancelled")
NoError == "nil"

ErrCancelled == "context cancelled"

\* results of ipinfo.Provider.GetIPInfo: found or error
IPInfoResults ==
  { [err |-> FALSE, Country |-> "country", RegionName |-> "region",
     Org |-> "org"],
    [err |-> TRUE, Country |-> "", RegionName |-> "", Org |-> ""] }

\* ------------------------------------------------------------------------
\* State
\* ------------------------------------------------------------------------

VARIABLES
  msgChan,     \* Server.msgChan: the buffered message channel
  sentLog,     \* history: every message sent on msgChan, in send order
  ctxDone,     \* the run's context has been cancelled
  cancelAt,    \* history: Len(sentLog) when the context was cancelled
               \* (recorded for trace.Manager only)
  nodes,       \* Manager.nodes
  done,        \* Manager.done: number of close(t.done) executed
  pollPc,      \* Manager.pollMessages: "select" or "returned"
  printed,     \* what the manager wrote to its printer / writer, in order
  received,    \* history: messages pollMessages received, with the
               \* NodeIndex handleNodeMessage returned (0: none)
  tmNodes,     \* TraceManager.nodes, owned by handleNodeOperations
  tmDone,      \* TraceManager.done: number of close(t.done) executed
  tmPollPc,    \* TraceManager.pollMessages: where the goroutine stands
  tmOpsPc,     \* TraceManager.handleNodeOperations: "select" or "returned"
  tmMsg,       \* pollMessages: the message being handled
  tmNode,      \* pollMessages: the node handleNodeMessage returned
  tmSnap,      \* pollMessages: the list GetNodes returned
  tmPending,   \* pollMessages: pendingAPIMsg
  tmWait,      \* pollMessages: waitForNode
  tmTimer,     \* pollMessages: nodeTimeout ("nil", "armed", "fired")
  tmOut,       \* what TraceManager wrote to its output writer, in order
  tmReceived,  \* history: messages TraceManager.pollMessages received
  sigIn,       \* getNodeSignature: the two header arguments compared
  sigOut,      \* getNodeSignature: the two results, <<>> before the calls
  piIn,        \* GetPlatformInfo: the arguments [userAgent, ip, cidr]
  piOut,       \* GetPlatformInfo: the label returned, <<>> before the call
  rmChan,      \* main.RecordManager.msgChan: the buffered string channel
  rmClosed,    \* main.RecordManager.msgChan has been closed by Shutdown
  rmSent,      \* history: every string sent by addMessage, in send order
  rmMessages,  \* main.RecordManager.messages
  rmDone,      \* main.RecordManager.done: number of close(r.done) executed
  rmPc,        \* processEvents: "select" or "returned"
  rmCtxDone,   \* the context handed to RecordManager.Start is cancelled
  recChan,     \* trace.RecordManager.msgChan
  recClosed,   \* trace.RecordManager.msgChan has been closed by Shutdown
  recMessages, \* trace.RecordManager.messages
  recSeen,     \* trace.RecordManager.seen: the signatures mapped to true
  recNodeCount,    \* trace.RecordManager.nodeCount
  recNodeRequests, \* trace.RecordManager.nodeRequests
  recDone,     \* trace.RecordManager.done: number of close(r.done) executed
  recPc,       \* processEvents: "select", "count" (inside getTraceInfo,
               \* before the nodeRequests update) or "returned"
  recHaveSeen, \* getTraceInfo: haveSeen
  recCtxDone,  \* the context handed to RecordManager.Start is cancelled
  recApiPc,    \* the goroutine calling AddApiResponse: "idle", "counted"
               \* (PrintNodeCounts has sent) or "sent"
  recOut,      \* what processEvents printed, in order
  recAccess,   \* history: accesses to seen, nodeCount and nodeRequests as
               \* [who, field, write]
  captchaCache,     \* Server.captchaCache: NoCaptcha (nil) or the result
  captchaCacheLock, \* Server.captchaCacheLock: 0 (free) or its holder
  imgPc,       \* handleImage, per request: where the handler stands
  imgCaptcha,  \* handleImage, per request: the local captcha
  imgResponse, \* per request: the HTTP response written, NoResponse before
  postPc,      \* SendPostRequest: where the goroutine stands
  postText,    \* SendPostRequest: the local captchaText (<<>> before)
  srvDone,     \* Server.done: number of close(s.done) executed
  generated,   \* history: the results GenerateCaptcha returned, in order
  lookupMsg,   \* handleNodeMessage: the message whose GetIPInfo call is
               \* outstanding, NilMsg when there is none
  exConfigs,   \* TestAllChannels: the argument configs
  exMax,       \* Executor.config.MaxConcurrency
  exSpawned,   \* TestAllChannels: goroutines started by the loop so far
  exPc,        \* per goroutine: where it stands
  exLocal,     \* per goroutine: its local result
  exResults,   \* TestAllChannels: the slice results
  exSem,       \* TestAllChannels: tokens held in the channel sem
  exWg,        \* TestAllChannels: the WaitGroup counter
  exReturned,  \* what TestAllChannels returned, NotReturned before
  exOrder,     \* history: the goroutines in the order they stored
  gnPc,        \* a caller of TraceManager.GetNodes: "idle", "send" (at
               \* the send on nodesChan) or "returned"
  gnSnap,      \* what that call of GetNodes returned
  pfIn,        \* the port search: [start, avail], the configured port and
               \* the ports a listener can be opened on
  pfOut,       \* the port search: whether it ran and what findAvailablePort
               \* and FindAvailablePort returned
  rdPc,        \* runDetection: "select" (waiting for the context or the
               \* tracer) or "returned"
  rdResult,    \* runDetection: the error it returned, NoError for nil
  alArrays,    \* first TraceManager: the arrays allocated for node slices
  alCur,       \* first TraceManager: the array behind t.nodes, 0 for nil
  alSeen,      \* first TraceManager: the signatures mapped to true in seen
  alHeld,      \* the pointers handleNodeMessage returned, each with the
               \* node it pointed to at the return
  alSnaps,     \* the slices GetNodes returned, each with its content at
               \* the return
  flPc,        \* repeated fetches: where the image handler is
  ctConfigs,   \* ChannelTest.TestAllChannels: the configs argument
  ctMax,       \* ChannelTest: config.MaxConcurrency
  ctBuf,       \* ChannelTest: config.ResultBuffer
  ctSpawned,   \* ChannelTest: goroutines started by the loop
  ctPc,        \* ChannelTest: where each goroutine is
  ctLocal,     \* ChannelTest: each goroutine's result
  ctSem,       \* ChannelTest: tokens in sem
  ctWg,        \* ChannelTest: the WaitGroup counter
  ctChan,      \* ChannelTest: the results buffered in resultChan
  ctClosed,    \* ChannelTest: resultChan has been closed
  ctResults,   \* ChannelTest: the collector's results slice
  ctColl,      \* ChannelTest: where the collector goroutine is
  ctMain,      \* ChannelTest: where the caller is
  ctReturned,  \* ChannelTest: the slice returned, NotReturned before
  tnScanPc,    \* Tunnel.waitForURL: where the scanner goroutine is
  tnScanned,   \* Tunnel.waitForURL: lines the scanner has read
  tnUrlChan,   \* Tunnel.waitForURL: urlChan
  tnErrChan,   \* Tunnel.waitForURL: errChan
  tnWaitPc,    \* Tunnel.waitForURL: where waitForURL is
  tnUrl,       \* Tunnel.url
  tnReady      \* Tunnel.ready: how often close(t.ready) has been called

mgrVars == <<nodes, done, pollPc, printed, received>>

envVars == <<msgChan, sentLog, ctxDone, cancelAt>>

tmVars ==
  <<tmNodes, tmDone, tmPollPc, tmOpsPc, tmMsg, tmNode, tmSnap, tmPending,
    tmWait, tmTimer, tmOut, tmReceived>>

sigVars == <<sigIn, sigOut>>

\* the correlator and its producers
traceVars == <<envVars, mgrVars, tmVars>>

\* everything the correlator specifications leave alone
piVars == <<piIn, piOut>>

rmVars ==
  <<rmChan, rmClosed, rmSent, rmMessages, rmDone, rmPc, rmCtxDone>>

recVars ==
  <<recChan, recClosed, recMessages, recSeen, recNodeCount, recNodeRequests,
    recDone, recPc, recHaveSeen, recCtxDone, recApiPc, recOut, recAccess>>

srvVars ==
  <<captchaCache, captchaCacheLock, imgPc, imgCaptcha, imgResponse, postPc,
    postText, srvDone, generated>>

\* the lookup started by handleNodeMessage
lkVars == <<lookupMsg>>

\* the state of the components added after the server
\* Executor.TestAllChannels
exVars ==
  <<exConfigs, exMax, exSpawned, exPc, exLocal, exResults, exSem, exWg,
    exReturned, exOrder>>

\* a call of TraceManager.GetNodes from outside pollMessages
gnVars == <<gnPc, gnSnap>>

\* findAvailablePort / FindAvailablePort
pfVars == <<pfIn, pfOut>>

\* runDetection waiting for the trace
rdVars == <<rdPc, rdResult>>

\* the callers of the correlator
\* the first TraceManager of part_016 and the callers of its methods
alVars == <<alArrays, alCur, alSeen, alHeld, alSnaps>>

\* the image handler invoked again and again
flVars == <<flPc>>

\* ChannelTest.TestAllChannels
ctVars ==
  <<ctConfigs, ctMax, ctBuf, ctSpawned, ctPc, ctLocal, ctSem, ctWg, ctChan,
    ctClosed, ctResults, ctColl, ctMain, ctReturned>>

\* tunnel.Tunnel
tnVars ==
  <<tnScanPc, tnScanned, tnUrlChan, tnErrChan, tnWaitPc, tnUrl, tnReady>>

restVars == <<rdVars, alVars, flVars, ctVars, tnVars>>

moreVars == <<lkVars, exVars, gnVars, pfVars, restVars>>

otherVars == <<sigVars, piVars, rmVars, recVars, srvVars, moreVars>>

\* ------------------------------------------------------------------------
\* trace.Manager
\* ------------------------------------------------------------------------

\* Manager.nodeMatches: source IP and user agent
nodeMatches(node, msg) ==
  IF msg.Headers = NilHeaders THEN FALSE
  ELSE node.IP = msg.Headers.IP /\ node.UserAgent = msg.Headers.UserAgent

\* serverInfo := util.GetPlatformInfo(newNode.UserAgent, newNode.IP,
\* t.cfg.OPENAICIDR), tabulated over the header tuples of the model
serverInfo ==
  [t \in HeaderTuples |-> GetPlatformInfo(t[1], t[3], OPENAICIDR)]

\* index of the first node of ns that matches msg, 0 when none does
FirstMatch(ns, msg) ==
  IF \E i \in 1..Len(ns) : nodeMatches(ns[i], msg)
    THEN CHOOSE i \in 1..Len(ns) :
           /\ nodeMatches(ns[i], msg)
           /\ \A j \in 1..(i - 1) : ~nodeMatches(ns[j], msg)
    ELSE 0

\* a node that is left blank when the lookup of its IP fails
NewNodeBlankOnError(ns, msg, info) ==
  IF info.err
    THEN [ZeroNode EXCEPT !.IP = msg.Headers.IP, !.IsNew = TRUE]
    ELSE [ZeroNode EXCEPT
            !.IP = msg.Headers.IP,
            !.UserAgent = msg.Headers.UserAgent,
            !.Time = msg.Headers.Time,
            !.NodeIndex = Len(ns) + 1,
            !.IsNew = TRUE,
            !.ForwardedFor = msg.Headers.ForwardedFor,
            !.RequestCount = 1,
            !.Country = info.Country,
            !.RegionName = info.RegionName,
            !.Org = info.Org,
            !.ServerName = serverInfo[<<msg.Headers.UserAgent,
                                        msg.Headers.ForwardedFor,
                                        msg.Headers.IP>>]]

\* the node handleNodeMessage creates for a message no node matches
NewNode(ns, msg, info) ==
  [ZeroNode EXCEPT
     !.IP = msg.Headers.IP,
     !.UserAgent = msg.Headers.UserAgent,
     !.Time = msg.Headers.Time,
     !.NodeIndex = Len(ns) + 1,
     !.IsNew = TRUE,
     !.ForwardedFor = msg.Headers.ForwardedFor,
     !.RequestCount = 1,
     !.Country = IF info.err THEN "" ELSE info.Country,
     !.RegionName = IF info.err THEN "" ELSE info.RegionName,
     !.Org = IF info.err THEN "" ELSE info.Org,
     !.ServerName = serverInfo[<<msg.Headers.UserAgent,
                                 msg.Headers.ForwardedFor, msg.Headers.IP>>]]

\* handleNodeMessage that loses the count of a repeated fetch
handleNodeMessageNoCount(ns, msg, info) ==
  LET i == FirstMatch(ns, msg) IN
  IF i # 0
    THEN [nodes |-> [ns EXCEPT ![i].IsNew = FALSE],
          node |-> [ns[i] EXCEPT !.IsNew = FALSE]]
    ELSE [nodes |-> Append(ns, NewNode(ns, msg, info)),
          node |-> NewNode(ns, msg, info)]

\* handleNodeMessage that refreshes the matching node from the message
handleNodeMessageRefresh(ns, msg, info) ==
  LET i == FirstMatch(ns, msg) IN
  IF i # 0
    THEN LET upd == [ns[i] EXCEPT !.RequestCount = @ + 1, !.IsNew = FALSE,
                                  !.Time = msg.Headers.Time,
                                  !.ForwardedFor = msg.Headers.ForwardedFor]
         IN [nodes |-> [ns EXCEPT ![i] = upd], node |-> upd]
    ELSE [nodes |-> Append(ns, NewNode(ns, msg, info)),
          node |-> NewNode(ns, msg, info)]

\* Manager.handleNodeMessage: the node list afterwards and the node returned
handleNodeMessage(ns, msg, info) ==
  LET i == FirstMatch(ns, msg) IN
  IF i # 0
    THEN LET upd == [ns[i] EXCEPT !.RequestCount = @ + 1, !.IsNew = FALSE]
         IN [nodes |-> [ns EXCEPT ![i] = upd], node |-> upd]
    ELSE [nodes |-> Append(ns, NewNode(ns, msg, info)),
          node |-> NewNode(ns, msg, info)]

\* Manager.GetNodes: a copy of the node list
GetNodes == nodes

\* entries of the printer's output
NoNode == [nil |-> TRUE]

Out(kind, node, content, request, response) ==
  [kind |-> kind, node |-> node, content |-> content,
   request |-> request, response |-> response]

\* an output that announces the node on every fetch
NodeOutputAlways(node) ==
  (IF node.NodeIndex = 1 /\ node.IsNew
     THEN << Out("title", NoNode, "node chain", "", "") >>
     ELSE <<>>)
  \o << Out("node", node, "", "", "") >>

\* what pollMessages prints for the node handleNodeMessage returned
NodeOutput(node) ==
  IF ~node.IsNew THEN <<>>
  ELSE (IF node.NodeIndex = 1
          THEN << Out("title", NoNode, "node chain", "", "") >>
          ELSE <<>>)
       \o << Out("node", node, "", "", "") >>

\* Manager.formatError
formatError(content) ==
  << Out("title", NoNode, "response", "", ""),
     Out("error", NoNode, content, "", "") >>

\* the text "未检测到任何节点"
NoNodesText == "no nodes detected"

\* ------------------------------------------------------------------------
\* The producers and the run's context
\* ------------------------------------------------------------------------

\* a send on the buffered channel blocks while the buffer is full
CanSend == Len(sentLog) < MaxSends /\ Len(msgChan) < MsgChanCap

Send(msg) ==
  /\ CanSend
  /\ msgChan' = Append(msgChan, msg)
  /\ sentLog' = Append(sentLog, msg)
  /\ UNCHANGED ctxDone

\* Server.handleImage: the deferred send of a node message
SendNode ==
  \E t \in HeaderTuples :
    Send(Message("Node", "", "", "",
                 RequestHeaders(t[1], t[2], Len(sentLog) + 1, t[3])))

\* a node message without headers
SendNilNode == Send(Message("Node", "", "", "", NilHeaders))

\* Server.SendPostRequest: an API message
SendAPI ==
  \E r \in ResponseTexts : Send(Message("API", r, "request", r, NilHeaders))

\* Server.SendPostRequest: an Error message
SendError ==
  \E e \in ErrorTexts : Send(Message("Error", e, "", "", NilHeaders))

\* the caller cancels the context, or its deadline passes
Cancel ==
  /\ ~ctxDone
  /\ ctxDone' = TRUE
  /\ UNCHANGED <<msgChan, sentLog>>

\* ------------------------------------------------------------------------
\* Manager.pollMessages
\* ------------------------------------------------------------------------

Received(msg, idx) == Append(received, [msg |-> msg, idx |-> idx])

\* case <-ctx.Done(): return
PollCtxDone ==
  /\ pollPc = "select"
  /\ ctxDone
  /\ pollPc' = "returned"
  /\ UNCHANGED <<nodes, done, printed, received, envVars, tmVars>>

\* a control loop that makes a hop of a message without headers
PollNodeNilHop ==
  /\ pollPc = "select"
  /\ msgChan # <<>>
  /\ Head(msgChan).Type = "Node"
  /\ msgChan' = Tail(msgChan)
  /\ IF Head(msgChan).Headers = NilHeaders
       THEN LET n == [ZeroNode EXCEPT !.NodeIndex = Len(nodes) + 1,
                                      !.IsNew = TRUE, !.RequestCount = 1]
            IN /\ nodes' = Append(nodes, n)
               /\ printed' = printed \o NodeOutput(n)
               /\ received' = Received(Head(msgChan), n.NodeIndex)
       ELSE \E info \in IPInfoResults :
              LET r == handleNodeMessage(nodes, Head(msgChan), info) IN
              /\ nodes' = r.nodes
              /\ printed' = printed \o NodeOutput(r.node)
              /\ received' = Received(Head(msgChan), r.node.NodeIndex)
  /\ UNCHANGED <<done, pollPc, sentLog, ctxDone, cancelAt, tmVars>>

\* case MessageTypeNode, MessageTypeRequest
PollNode ==
  /\ pollPc = "select"
  /\ msgChan # <<>>
  /\ Head(msgChan).Type = "Node"
  /\ msgChan' = Tail(msgChan)
  /\ IF Head(msgChan).Headers = NilHeaders
       THEN /\ received' = Received(Head(msgChan), 0)
            /\ UNCHANGED <<nodes, printed>>
       ELSE \E info \in IPInfoResults :
              LET r == handleNodeMessage(nodes, Head(msgChan), info) IN
              /\ nodes' = r.nodes
              /\ printed' = printed \o NodeOutput(r.node)
              /\ received' = Received(Head(msgChan), r.node.NodeIndex)
  /\ UNCHANGED <<done, pollPc, sentLog, ctxDone, cancelAt, tmVars>>

\* case MessageTypeAPI
PollAPI ==
  /\ pollPc = "select"
  /\ msgChan # <<>>
  /\ Head(msgChan).Type = "API"
  /\ msgChan' = Tail(msgChan)
  /\ received' = Received(Head(msgChan), 0)
  /\ IF Len(GetNodes) = 0
       THEN printed' = printed \o formatError(NoNodesText)
       ELSE printed' = printed \o
              << Out("title", NoNode, "response", "", ""),
                 Out("response", NoNode, "", Head(msgChan).Request,
                     Head(msgChan).Response) >>
  /\ done' = done + 1
  /\ pollPc' = "returned"
  /\ UNCHANGED <<nodes, sentLog, ctxDone, cancelAt, tmVars>>

\* case MessageTypeError
PollError ==
  /\ pollPc = "select"
  /\ msgChan # <<>>
  /\ Head(msgChan).Type = "Error"
  /\ msgChan' = Tail(msgChan)
  /\ received' = Received(Head(msgChan), 0)
  /\ printed' = printed \o formatError(Head(msgChan).Content)
  /\ done' = done + 1
  /\ pollPc' = "returned"
  /\ UNCHANGED <<nodes, sentLog, ctxDone, cancelAt, tmVars>>

\* ------------------------------------------------------------------------
\* trace.TraceManager with the mutex (second generation): pollMessages
\* ------------------------------------------------------------------------

\* case <-ctx.Done(): return
muPollCtxDone ==
  /\ pollPc = "select"
  /\ ctxDone
  /\ pollPc' = "returned"
  /\ UNCHANGED <<nodes, done, printed, received, envVars, tmVars>>

\* case MessageTypeNode, MessageTypeRequest
muPollNode ==
  /\ pollPc = "select"
  /\ msgChan # <<>>
  /\ Head(msgChan).Type = "Node"
  /\ msgChan' = Tail(msgChan)
  /\ IF Head(msgChan).Headers = NilHeaders
       THEN /\ received' = Received(Head(msgChan), 0)
            /\ UNCHANGED <<nodes, printed>>
       ELSE \E info \in IPInfoResults :
              LET r == handleNodeMessage(nodes, Head(msgChan), info) IN
              /\ nodes' = r.nodes
              /\ printed' = printed \o NodeOutput(r.node)
              /\ received' = Received(Head(msgChan), r.node.NodeIndex)
  /\ UNCHANGED <<done, pollPc, sentLog, ctxDone, cancelAt, tmVars>>

\* case MessageTypeAPI: sleeps, reports, returns; t.done stays open
muPollAPI ==
  /\ pollPc = "select"
  /\ msgChan # <<>>
  /\ Head(msgChan).Type = "API"
  /\ msgChan' = Tail(msgChan)
  /\ received' = Received(Head(msgChan), 0)
  /\ IF Len(GetNodes) = 0
       THEN printed' = Append(printed, Out("error", NoNode, NoNodesText, "", ""))
       ELSE printed' = Append(printed,
              Out("response", NoNode, Head(msgChan).Content, "", ""))
  /\ pollPc' = "returned"
  /\ UNCHANGED <<nodes, done, sentLog, ctxDone, cancelAt, tmVars>>

\* case MessageTypeError: reports, returns; t.done stays open
muPollError ==
  /\ pollPc = "select"
  /\ msgChan # <<>>
  /\ Head(msgChan).Type = "Error"
  /\ msgChan' = Tail(msgChan)
  /\ received' = Received(Head(msgChan), 0)
  /\ printed' = Append(printed,
                  Out("error", NoNode, Head(msgChan).Content, "", ""))
  /\ pollPc' = "returned"
  /\ UNCHANGED <<nodes, done, sentLog, ctxDone, cancelAt, tmVars>>

\* ------------------------------------------------------------------------
\* trace.TraceManager with the node-operation goroutine (third generation)
\*
\* pollMessages and handleNodeOperations meet on the unbuffered nodesChan
\* and on the unbuffered response channel; a rendezvous is one step of
\* handleNodeOperations.  msg, node and nodes are locals of one iteration
\* of the loop of pollMessages and are gone when the iteration ends.
\* ------------------------------------------------------------------------

\* a nil *types.Node, a nil *types.Message
NilNode == [nil |-> TRUE]

NilMsg == [nil |-> TRUE]

\* TraceManager.nodeMatches: source IP, user agent and forwarded-for
tmNodeMatches(node, msg) ==
  IF node = NilNode \/ msg = NilMsg \/ msg.Headers = NilHeaders THEN FALSE
  ELSE /\ node.IP = msg.Headers.IP
       /\ node.UserAgent = msg.Headers.UserAgent
       /\ node.ForwardedFor = msg.Headers.ForwardedFor

\* index of the first node of ns that matches msg, 0 when none does
tmFirstMatch(ns, msg) ==
  IF \E i \in 1..Len(ns) : tmNodeMatches(ns[i], msg)
    THEN CHOOSE i \in 1..Len(ns) :
           /\ tmNodeMatches(ns[i], msg)
           /\ \A j \in 1..(i - 1) : ~tmNodeMatches(ns[j], msg)
    ELSE 0

\* the node the opHandle branch creates
tmNewNode(ns, msg) ==
  [ZeroNode EXCEPT
     !.IP = msg.Headers.IP,
     !.UserAgent = msg.Headers.UserAgent,
     !.Time = msg.Headers.Time,
     !.RequestCount = 1,
     !.NodeIndex = Len(ns) + 1,
     !.IsNew = TRUE,
     !.ForwardedFor = msg.Headers.ForwardedFor]

\* opHandle that answers nil once the API message is pending
opHandleDropLate(ns, msg) ==
  IF msg = NilMsg \/ msg.Headers = NilHeaders \/ tmPending # NilMsg
    THEN [nodes |-> ns, node |-> NilNode]
  ELSE LET i == tmFirstMatch(ns, msg) IN
       IF i # 0
         THEN LET upd == [ns[i] EXCEPT !.RequestCount = @ + 1,
                                       !.IsNew = FALSE]
              IN [nodes |-> [ns EXCEPT ![i] = upd], node |-> upd]
         ELSE [nodes |-> Append(ns, tmNewNode(ns, msg)),
               node |-> tmNewNode(ns, msg)]

\* handleNodeOperations, case opHandle: the list afterwards, the response
opHandle(ns, msg) ==
  IF msg = NilMsg \/ msg.Headers = NilHeaders
    THEN [nodes |-> ns, node |-> NilNode]
  ELSE LET i == tmFirstMatch(ns, msg) IN
       IF i # 0
         THEN LET upd == [ns[i] EXCEPT !.RequestCount = @ + 1,
                                       !.IsNew = FALSE]
              IN [nodes |-> [ns EXCEPT ![i] = upd], node |-> upd]
         ELSE [nodes |-> Append(ns, tmNewNode(ns, msg)),
               node |-> tmNewNode(ns, msg)]

\* entries of the output writer's log
Written(kind, content, node, counts) ==
  [kind |-> kind, content |-> content, node |-> node, counts |-> counts]

\* formatNodeRequestCounts: index and request count of every node
formatNodeRequestCounts(ns) ==
  [i \in 1..Len(ns) |-> <<ns[i].NodeIndex, ns[i].RequestCount>>]

\* nodeTimeout after the "if waitForNode" reset
ResetTimeout == IF tmWait THEN "armed" ELSE tmTimer

\* pollMessages: case <-ctx.Done(): return (deferred close(t.done))
tmPollCtxDone ==
  /\ tmPollPc = "select"
  /\ ctxDone
  /\ tmPollPc' = "returned"
  /\ tmDone' = tmDone + 1
  /\ UNCHANGED <<tmNodes, tmOpsPc, tmMsg, tmNode, tmSnap, tmPending, tmWait,
                 tmTimer, tmOut, tmReceived, envVars>>

\* the 500 ms of time.After pass
tmTimerFire ==
  /\ tmTimer = "armed"
  /\ tmTimer' = "fired"
  /\ UNCHANGED <<tmNodes, tmDone, tmPollPc, tmOpsPc, tmMsg, tmNode, tmSnap,
                 tmPending, tmWait, tmOut, tmReceived, envVars>>

\* pollMessages: case <-nodeTimeout, up to the send in GetNodes
tmPollTimeout ==
  /\ tmPollPc = "select"
  /\ tmTimer = "fired"
  /\ tmTimer' = "nil"
  /\ tmPollPc' = IF tmPending # NilMsg THEN "timeoutGet" ELSE "select"
  /\ UNCHANGED <<tmNodes, tmDone, tmOpsPc, tmMsg, tmNode, tmSnap, tmPending,
                 tmWait, tmOut, tmReceived, envVars>>

\* pollMessages: case MessageTypeNode, up to the send in handleNodeMessage
tmPollNode ==
  /\ tmPollPc = "select"
  /\ msgChan # <<>>
  /\ Head(msgChan).Type = "Node"
  /\ msgChan' = Tail(msgChan)
  /\ tmMsg' = Head(msgChan)
  /\ tmReceived' = Append(tmReceived, [msg |-> Head(msgChan), idx |-> 0])
  /\ tmPollPc' = "handle"
  /\ UNCHANGED <<tmNodes, tmDone, tmOpsPc, tmNode, tmSnap, tmPending, tmWait,
                 tmTimer, tmOut, sentLog, ctxDone, cancelAt>>

\* pollMessages: case MessageTypeAPI
tmPollAPI ==
  /\ tmPollPc = "select"
  /\ msgChan # <<>>
  /\ Head(msgChan).Type = "API"
  /\ msgChan' = Tail(msgChan)
  /\ tmReceived' = Append(tmReceived, [msg |-> Head(msgChan), idx |-> 0])
  /\ tmPending' = Head(msgChan)
  /\ tmWait' = TRUE
  /\ tmTimer' = "armed"
  /\ UNCHANGED <<tmNodes, tmDone, tmPollPc, tmOpsPc, tmMsg, tmNode, tmSnap,
                 tmOut, sentLog, ctxDone, cancelAt>>

\* pollMessages: case MessageTypeError, up to the send in GetNodes
tmPollError ==
  /\ tmPollPc = "select"
  /\ msgChan # <<>>
  /\ Head(msgChan).Type = "Error"
  /\ msgChan' = Tail(msgChan)
  /\ tmMsg' = Head(msgChan)
  /\ tmReceived' = Append(tmReceived, [msg |-> Head(msgChan), idx |-> 0])
  /\ tmPollPc' = "errorGet"
  /\ UNCHANGED <<tmNodes, tmDone, tmOpsPc, tmNode, tmSnap, tmPending, tmWait,
                 tmTimer, tmOut, sentLog, ctxDone, cancelAt>>

\* handleNodeOperations: case <-ctx.Done(): return
tmOpsCtxDone ==
  /\ tmOpsPc = "select"
  /\ ctxDone
  /\ tmOpsPc' = "returned"
  /\ UNCHANGED <<tmNodes, tmDone, tmPollPc, tmMsg, tmNode, tmSnap, tmPending,
                 tmWait, tmTimer, tmOut, tmReceived, envVars>>

\* handleNodeOperations: case opHandle, the rendezvous on nodesChan and
\* on the response channel with handleNodeMessage
tmOpsHandle ==
  /\ tmOpsPc = "select"
  /\ tmPollPc = "handle"
  /\ tmNodes' = opHandle(tmNodes, tmMsg).nodes
  /\ tmNode' = opHandle(tmNodes, tmMsg).node
  /\ tmPollPc' = "handled"
  /\ UNCHANGED <<tmDone, tmOpsPc, tmMsg, tmSnap, tmPending, tmWait, tmTimer,
                 tmOut, tmReceived, envVars>>

\* handleNodeOperations: case opGet, the rendezvous with GetNodes
tmOpsGet ==
  /\ tmOpsPc = "select"
  /\ tmPollPc \in {"notifyGet", "timeoutGet", "errorGet"}
  /\ tmSnap' = tmNodes
  /\ tmPollPc' = CASE tmPollPc = "notifyGet" -> "notifyGot"
                   [] tmPollPc = "timeoutGet" -> "timeoutGot"
                   [] tmPollPc = "errorGet" -> "errorGot"
  /\ UNCHANGED <<tmNodes, tmDone, tmOpsPc, tmMsg, tmNode, tmPending, tmWait,
                 tmTimer, tmOut, tmReceived, envVars>>

\* pollMessages: case MessageTypeNode after handleNodeMessage returned
tmPollHandled ==
  /\ tmPollPc = "handled"
  /\ IF tmNode = NilNode
       THEN /\ tmPollPc' = "select"
            /\ tmMsg' = NilMsg
            /\ UNCHANGED <<tmOut, tmTimer, tmReceived, tmNode>>
       ELSE /\ tmReceived' =
                 [tmReceived EXCEPT ![Len(tmReceived)].idx = tmNode.NodeIndex]
            /\ tmOut' = IF tmNode.IsNew /\ tmNode.NodeIndex = 1
                          THEN Append(tmOut,
                                 Written("write", "node chain", NilNode, <<>>))
                          ELSE tmOut
            /\ IF tmNode.IsNew
                 THEN /\ tmPollPc' = "notifyGet"
                      /\ UNCHANGED <<tmTimer, tmMsg, tmNode>>
                 ELSE /\ tmPollPc' = "select"
                      /\ tmTimer' = ResetTimeout
                      /\ tmMsg' = NilMsg
                      /\ tmNode' = NilNode
  /\ UNCHANGED <<tmNodes, tmDone, tmOpsPc, tmSnap, tmPending, tmWait,
                 envVars>>

\* pollMessages: the new node's line, written after GetNodes returned
tmPollNotify ==
  /\ tmPollPc = "notifyGot"
  /\ IF \E i \in 1..Len(tmSnap) : tmSnap[i].NodeIndex = tmNode.NodeIndex
       THEN \E info \in IPInfoResults :
              LET i == CHOOSE k \in 1..Len(tmSnap) :
                         /\ tmSnap[k].NodeIndex = tmNode.NodeIndex
                         /\ \A l \in 1..(k - 1) :
                              tmSnap[l].NodeIndex # tmNode.NodeIndex
              IN tmOut' = Append(tmOut,
                            Written("info",
                                    IF info.err THEN "unknown service"
                                    ELSE info.Country,
                                    tmSnap[i], <<>>))
       ELSE UNCHANGED tmOut
  /\ tmTimer' = ResetTimeout
  /\ tmPollPc' = "select"
  /\ tmMsg' = NilMsg
  /\ tmNode' = NilNode
  /\ tmSnap' = <<>>
  /\ UNCHANGED <<tmNodes, tmDone, tmOpsPc, tmPending, tmWait, tmReceived,
                 envVars>>

\* pollMessages: case <-nodeTimeout after GetNodes returned
tmPollReport ==
  /\ tmPollPc = "timeoutGot"
  /\ tmOut' = tmOut \o
       << Written("write", "node request counts", NilNode, <<>>),
          Written("counts", "", NilNode, formatNodeRequestCounts(tmSnap)),
          Written("response", tmPending.Content, NilNode, <<>>) >>
       \o (IF Len(tmSnap) = 0
             THEN << Written("error", NoNodesText, NilNode, <<>>) >>
             ELSE <<>>)
  /\ tmPollPc' = "returned"
  /\ tmDone' = tmDone + 1
  /\ UNCHANGED <<tmNodes, tmOpsPc, tmMsg, tmNode, tmSnap, tmPending, tmWait,
                 tmTimer, tmReceived, envVars>>

\* pollMessages: case MessageTypeError after GetNodes returned
tmPollReportError ==
  /\ tmPollPc = "errorGot"
  /\ tmOut' = tmOut \o
       << Written("counts", "", NilNode, formatNodeRequestCounts(tmSnap)),
          Written("error", tmMsg.Content, NilNode, <<>>) >>
  /\ tmPollPc' = "returned"
  /\ tmDone' = tmDone + 1
  /\ UNCHANGED <<tmNodes, tmOpsPc, tmMsg, tmNode, tmSnap, tmPending, tmWait,
                 tmTimer, tmReceived, envVars>>

\* ------------------------------------------------------------------------
\* Specifications
\* ------------------------------------------------------------------------

vars == <<traceVars, otherVars>>

\* the correlator after construction
InitTrace ==
  /\ msgChan = <<>>
  /\ sentLog = <<>>
  /\ ctxDone = FALSE
  /\ cancelAt = 0
  /\ nodes = <<>>
  /\ done = 0
  /\ pollPc = "select"
  /\ printed = <<>>
  /\ received = <<>>
  /\ tmNodes = <<>>
  /\ tmDone = 0
  /\ tmPollPc = "select"
  /\ tmOpsPc = "select"
  /\ tmMsg = NilMsg
  /\ tmNode = NilNode
  /\ tmSnap = <<>>
  /\ tmPending = NilMsg
  /\ tmWait = FALSE
  /\ tmTimer = "nil"
  /\ tmOut = <<>>
  /\ tmReceived = <<>>

\* no call of getNodeSignature under way
InitSigIdle == sigIn = <<>> /\ sigOut = <<>>

\* no call of GetPlatformInfo under way
InitPiIdle == piIn = <<>> /\ piOut = <<>>

\* main.NewRecordManager, before Start
InitRm ==
  /\ rmChan = <<>>
  /\ rmClosed = FALSE
  /\ rmSent = <<>>
  /\ rmMessages = <<>>
  /\ rmDone = 0
  /\ rmPc = "select"
  /\ rmCtxDone = FALSE

\* trace.New of record.go, before Start
InitRec ==
  /\ recChan = <<>>
  /\ recClosed = FALSE
  /\ recMessages = <<>>
  /\ recSeen = {}
  /\ recNodeCount = 0
  /\ recNodeRequests = [i \in 0..MaxSends |-> 0]
  /\ recDone = 0
  /\ recPc = "select"
  /\ recHaveSeen = FALSE
  /\ recCtxDone = FALSE
  /\ recApiPc = "idle"
  /\ recOut = <<>>
  /\ recAccess = {}

\* a nil *interfaces.CaptchaResult
NoCaptcha == [nil |-> TRUE]

\* no response written yet
NoResponse == [status |-> 0, image |-> 0]

\* server.New: no captcha cached, no request under way
InitSrv ==
  /\ captchaCache = NoCaptcha
  /\ captchaCacheLock = 0
  /\ imgPc = [h \in 1..MaxRequests |-> "idle"]
  /\ imgCaptcha = [h \in 1..MaxRequests |-> NoCaptcha]
  /\ imgResponse = [h \in 1..MaxRequests |-> NoResponse]
  /\ postPc = "start"
  /\ postText = <<>>
  /\ srvDone = 0
  /\ generated = <<>>

\* no lookup is outstanding
InitLk == lookupMsg = NilMsg

\* the zero value of TestResult
ZeroResult == [Channel |-> "", Model |-> "", Success |-> FALSE, Error |-> ""]

NotReturned == [returned |-> FALSE, results |-> <<>>]

\* TestAllChannels entered with configs under MaxConcurrency max:
\* results := make([]TestResult, len(configs)), an empty sem and WaitGroup
ExEntered(configs, max) ==
  /\ exConfigs = configs
  /\ exMax = max
  /\ exSpawned = 0
  /\ exPc = [i \in 1..Len(configs) |-> "unstarted"]
  /\ exLocal = [i \in 1..Len(configs) |-> ZeroResult]
  /\ exResults = [i \in 1..Len(configs) |-> ZeroResult]
  /\ exSem = 0
  /\ exWg = 0
  /\ exReturned = NotReturned
  /\ exOrder = <<>>

\* no call of TestAllChannels under way
InitExIdle == ExEntered(<<>>, 1)

\* no outside call of GetNodes yet
InitGn == gnPc = "idle" /\ gnSnap = <<>>

NotSearched == [called |-> FALSE, main |-> 0, util |-> 0]

\* no port search under way
InitPfIdle == pfIn = [start |-> 1, avail |-> {}] /\ pfOut = NotSearched

\* runDetection has started the tracer and SendPostRequest
InitRd == rdPc = "select" /\ rdResult = NoError

\* the first TraceManager after New: no node, an empty seen map
InitAl ==
  /\ alArrays = <<>>
  /\ alCur = 0
  /\ alSeen = {}
  /\ alHeld = <<>>
  /\ alSnaps = <<>>

\* no fetch has arrived
InitFl == flPc = "idle"

\* TestAllChannels entered with configs, MaxConcurrency max and
\* ResultBuffer buf: the channels are made and the collector is started
CtEntered(configs, max, buf) ==
  /\ ctConfigs = configs
  /\ ctMax = max
  /\ ctBuf = buf
  /\ ctSpawned = 0
  /\ ctPc = [i \in 1..Len(configs) |-> "unstarted"]
  /\ ctLocal = [i \in 1..Len(configs) |-> ZeroResult]
  /\ ctSem = 0
  /\ ctWg = 0
  /\ ctChan = <<>>
  /\ ctClosed = FALSE
  /\ ctResults = <<>>
  /\ ctColl = "range"
  /\ ctMain = "loop"
  /\ ctReturned = NotReturned

\* no call of ChannelTest.TestAllChannels: one with no configs
InitCtIdle == CtEntered(<<>>, 1, 0)

\* the empty string
NoUrl == <<>>

\* tunnel.New: ssh is started, ready is open, waitForURL and its scanner
\* are running
InitTn ==
  /\ tnScanPc = "scan"
  /\ tnScanned = <<>>
  /\ tnUrlChan = <<>>
  /\ tnErrChan = <<>>
  /\ tnWaitPc = "select"
  /\ tnUrl = NoUrl
  /\ tnReady = 0

InitRest == InitRd /\ InitAl /\ InitFl /\ InitCtIdle /\ InitTn

InitMore == InitLk /\ InitExIdle /\ InitGn /\ InitPfIdle /\ InitRest

Init ==
  /\ InitTrace /\ InitSigIdle /\ InitPiIdle /\ InitRm /\ InitRec /\ InitSrv
  /\ InitMore

\* trace.Manager fed by the server
Next ==
  \/ (SendNode /\ UNCHANGED <<cancelAt, mgrVars, tmVars, otherVars>>)
  \/ (SendNilNode /\ UNCHANGED <<cancelAt, mgrVars, tmVars, otherVars>>)
  \/ (SendAPI /\ UNCHANGED <<cancelAt, mgrVars, tmVars, otherVars>>)
  \/ (SendError /\ UNCHANGED <<cancelAt, mgrVars, tmVars, otherVars>>)
  \/ (Cancel /\ cancelAt' = Len(sentLog)
        /\ UNCHANGED <<mgrVars, tmVars, otherVars>>)
  \/ (PollCtxDone /\ UNCHANGED otherVars)
  \/ (PollNode /\ UNCHANGED otherVars)
  \/ (PollAPI /\ UNCHANGED otherVars)
  \/ (PollError /\ UNCHANGED otherVars)

Spec == Init /\ [][Next]_vars

\* the mutex generation of TraceManager fed by the server
NextMu ==
  \/ (SendNode /\ UNCHANGED <<cancelAt, mgrVars, tmVars, otherVars>>)
  \/ (SendNilNode /\ UNCHANGED <<cancelAt, mgrVars, tmVars, otherVars>>)
  \/ (SendAPI /\ UNCHANGED <<cancelAt, mgrVars, tmVars, otherVars>>)
  \/ (SendError /\ UNCHANGED <<cancelAt, mgrVars, tmVars, otherVars>>)
  \/ (Cancel /\ UNCHANGED <<cancelAt, mgrVars, tmVars, otherVars>>)
  \/ (muPollCtxDone /\ UNCHANGED otherVars)
  \/ (muPollNode /\ UNCHANGED otherVars)
  \/ (muPollAPI /\ UNCHANGED otherVars)
  \/ (muPollError /\ UNCHANGED otherVars)

SpecMu == Init /\ [][NextMu]_vars

\* the node-operation generation of TraceManager fed by the server
NextTM ==
  \/ (SendNode /\ UNCHANGED <<cancelAt, mgrVars, tmVars, otherVars>>)
  \/ (SendNilNode /\ UNCHANGED <<cancelAt, mgrVars, tmVars, otherVars>>)
  \/ (SendAPI /\ UNCHANGED <<cancelAt, mgrVars, tmVars, otherVars>>)
  \/ (SendError /\ UNCHANGED <<cancelAt, mgrVars, tmVars, otherVars>>)
  \/ (Cancel /\ UNCHANGED <<cancelAt, mgrVars, tmVars, otherVars>>)
  \/ (tmPollCtxDone /\ UNCHANGED <<mgrVars, otherVars>>)
  \/ (tmTimerFire /\ UNCHANGED <<mgrVars, otherVars>>)
  \/ (tmPollTimeout /\ UNCHANGED <<mgrVars, otherVars>>)
  \/ (tmPollNode /\ UNCHANGED <<mgrVars, otherVars>>)
  \/ (tmPollAPI /\ UNCHANGED <<mgrVars, otherVars>>)
  \/ (tmPollError /\ UNCHANGED <<mgrVars, otherVars>>)
  \/ (tmOpsCtxDone /\ UNCHANGED <<mgrVars, otherVars>>)
  \/ (tmOpsHandle /\ UNCHANGED <<mgrVars, otherVars>>)
  \/ (tmOpsGet /\ UNCHANGED <<mgrVars, otherVars>>)
  \/ (tmPollHandled /\ UNCHANGED <<mgrVars, otherVars>>)
  \/ (tmPollNotify /\ UNCHANGED <<mgrVars, otherVars>>)
  \/ (tmPollReport /\ UNCHANGED <<mgrVars, otherVars>>)
  \/ (tmPollReportError /\ UNCHANGED <<mgrVars, otherVars>>)

SpecTM == Init /\ [][NextTM]_vars

\* ------------------------------------------------------------------------
\* trace.getNodeSignature (header fields as character sequences)
\* ------------------------------------------------------------------------

\* the characters of the fields: an ordinary one and the separator
SigChars == {"a", "|"}

\* the strings of at most n characters
Strings(chars, n) == UNION {[1..k -> chars] : k \in 0..n}

\* the arguments: nil, or headers with any strings as fields
SigHeaders ==
  {NilHeaders} \cup
  { RequestHeaders(ua, ff, 0, ip) :
      ua \in Strings(SigChars, MaxFieldLen),
      ff \in Strings(SigChars, MaxFieldLen),
      ip \in Strings(SigChars, MaxFieldLen) }

\* a signature that drops the empty fields
getNodeSignatureSkipEmpty(headers) ==
  IF headers = NilHeaders THEN <<>>
  ELSE LET fs == SelectSeq(<<headers.UserAgent, headers.ForwardedFor,
                             headers.IP>>, LAMBDA f : f # <<>>)
       IN IF Len(fs) = 0 THEN <<>>
          ELSE IF Len(fs) = 1 THEN fs[1]
          ELSE IF Len(fs) = 2 THEN fs[1] \o <<"|">> \o fs[2]
          ELSE fs[1] \o <<"|">> \o fs[2] \o <<"|">> \o fs[3]

\* fmt.Sprintf("%s|%s|%s", UserAgent, ForwardedFor, IP); "" for nil
getNodeSignature(headers) ==
  IF headers = NilHeaders THEN <<>>
  ELSE headers.UserAgent \o <<"|">> \o headers.ForwardedFor
         \o <<"|">> \o headers.IP

\* two headers are about to be signed
InitSig ==
  /\ InitTrace
  /\ sigIn \in SigHeaders \X SigHeaders
  /\ sigOut = <<>>
  /\ InitPiIdle
  /\ InitRm
  /\ InitRec
  /\ InitSrv
  /\ InitMore

\* both signatures are computed
CallSig ==
  /\ sigIn # <<>>
  /\ sigOut = <<>>
  /\ sigOut' = <<getNodeSignature(sigIn[1]), getNodeSignature(sigIn[2])>>
  /\ UNCHANGED <<sigIn, traceVars, piVars, rmVars, recVars, srvVars, moreVars>>

NextSig == CallSig

SpecSig == InitSig /\ [][NextSig]_vars

\* ------------------------------------------------------------------------
\* util.GetPlatformInfo called on its own
\* ------------------------------------------------------------------------

\* the upper-case spelling of a string
ToUpperChar(c) ==
  IF \E i \in 1..26 : LowerChars[i] = c
    THEN UpperChars[CHOOSE i \in 1..26 : LowerChars[i] = c]
    ELSE c

ToUpper(s) == [i \in 1..Len(s) |-> ToUpperChar(s[i])]

\* every pattern of the table as written there, and a token matching none
PiTokens ==
  {UACurl} \cup
  UNION { {platformPatterns[p].patterns[j] :
              j \in 1..Len(platformPatterns[p].patterns)} :
          p \in 1..Len(platformPatterns) }

\* user agents of at most n tokens, separated by "/"
RECURSIVE TokenStrings(_)
TokenStrings(n) ==
  IF n = 0 THEN {<<>>}
  ELSE LET shorter == TokenStrings(n - 1)
       IN shorter \cup PiTokens \cup
          {s \o <<"/">> \o t : s \in shorter \ {<<>>}, t \in PiTokens}

\* the user agents: the token strings, and every token in lower case and
\* in upper case
PiUserAgents ==
  TokenStrings(MaxTokens) \cup
  UNION {{ToLower(t), ToUpper(t)} : t \in PiTokens}

\* source addresses: outside every block, inside the first block, just
\* above the first block, inside the last block, and one that does not parse
PiIPs ==
  {IPPlain, IPVendor, <<23, 102, 140, 128>>, <<40, 84, 180, 130>>, <<>>}

\* configured lists: the built-in one, and none
PiCidrs == {OPENAICIDR, <<>>}

InitPi ==
  /\ InitTrace
  /\ InitSigIdle
  /\ piIn \in [userAgent : PiUserAgents, ip : PiIPs, cidr : PiCidrs]
  /\ piOut = <<>>
  /\ InitRm
  /\ InitRec
  /\ InitSrv
  /\ InitMore

CallPi ==
  /\ piIn # <<>>
  /\ piOut = <<>>
  /\ piOut' = GetPlatformInfo(piIn.userAgent, piIn.ip, piIn.cidr)
  /\ UNCHANGED <<piIn, traceVars, sigVars, rmVars, recVars, srvVars, moreVars>>

NextPi == CallPi

SpecPi == InitPi /\ [][NextPi]_vars

\* ------------------------------------------------------------------------
\* main.RecordManager: the string channel and processEvents
\* ------------------------------------------------------------------------

\* capacity of main.RecordManager.msgChan
RmChanCap == 100

finishMessage == "finish"

\* the strings the handlers and sendPostRequest record
RmTexts == {"request", "error", finishMessage}

\* addMessage: r.msgChan <- message (blocks while the buffer is full; a
\* send on the closed channel panics and ends the process, which is left
\* out)
addMessage(message) ==
  /\ Len(rmSent) < MaxSends
  /\ ~rmClosed
  /\ Len(rmChan) < RmChanCap
  /\ rmChan' = Append(rmChan, message)
  /\ rmSent' = Append(rmSent, message)
  /\ UNCHANGED <<rmClosed, rmMessages, rmDone, rmPc, rmCtxDone>>

rmAddMessage == \E message \in RmTexts : addMessage(message)

\* the caller's timeout or cancel
rmCancel ==
  /\ ~rmCtxDone
  /\ rmCtxDone' = TRUE
  /\ UNCHANGED <<rmChan, rmClosed, rmSent, rmMessages, rmDone, rmPc>>

\* Server.Shutdown: close(s.records.msgChan), called once records.done
\* is closed or the context is done
rmShutdown ==
  /\ rmDone > 0 \/ rmCtxDone
  /\ ~rmClosed
  /\ rmClosed' = TRUE
  /\ UNCHANGED <<rmChan, rmSent, rmMessages, rmDone, rmPc, rmCtxDone>>

\* processEvents, case <-ctx.Done(): return, the deferred close runs
processEventsCtxDone ==
  /\ rmPc = "select"
  /\ rmCtxDone
  /\ rmPc' = "returned"
  /\ rmDone' = rmDone + 1
  /\ UNCHANGED <<rmChan, rmClosed, rmSent, rmMessages, rmCtxDone>>

\* a receive that goes on after the finish message
processEventsRecvNoStop ==
  /\ rmPc = "select"
  /\ rmChan # <<>>
  /\ rmChan' = Tail(rmChan)
  /\ rmMessages' = Append(rmMessages, Head(rmChan))
  /\ UNCHANGED <<rmPc, rmDone, rmClosed, rmSent, rmCtxDone>>

\* processEvents, case msg, ok := <-r.msgChan with ok: append, print, and
\* return on the finish message
processEventsRecv ==
  /\ rmPc = "select"
  /\ rmChan # <<>>
  /\ rmChan' = Tail(rmChan)
  /\ rmMessages' = Append(rmMessages, Head(rmChan))
  /\ IF Head(rmChan) = finishMessage
       THEN rmPc' = "returned" /\ rmDone' = rmDone + 1
       ELSE UNCHANGED <<rmPc, rmDone>>
  /\ UNCHANGED <<rmClosed, rmSent, rmCtxDone>>

\* processEvents, the receive with !ok: the channel is closed and drained
processEventsClosed ==
  /\ rmPc = "select"
  /\ rmChan = <<>>
  /\ rmClosed
  /\ rmPc' = "returned"
  /\ rmDone' = rmDone + 1
  /\ UNCHANGED <<rmChan, rmClosed, rmSent, rmMessages, rmCtxDone>>

notRmVars == <<traceVars, sigVars, piVars, recVars, srvVars, moreVars>>

NextRm ==
  \/ (rmAddMessage /\ UNCHANGED notRmVars)
  \/ (rmCancel /\ UNCHANGED notRmVars)
  \/ (rmShutdown /\ UNCHANGED notRmVars)
  \/ (processEventsCtxDone /\ UNCHANGED notRmVars)
  \/ (processEventsRecv /\ UNCHANGED notRmVars)
  \/ (processEventsClosed /\ UNCHANGED notRmVars)

SpecRm == Init /\ [][NextRm]_vars

\* ------------------------------------------------------------------------
\* trace.RecordManager of pkg/trace/record.go
\* ------------------------------------------------------------------------

\* capacity of trace.RecordManager.msgChan
RecChanCap == 100

\* trace.RequestHeaders of a bait fetch (the fields the manager reads)
RecHeaders ==
  [UserAgent : {"ua"}, ForwardedFor : {""}, ConnectingIP : {"c1", "c2"},
   IP : {"ip"}, Time : {1, 2}]

\* the zero value of trace.RequestHeaders
RecZeroHeaders ==
  [UserAgent |-> "", ForwardedFor |-> "", ConnectingIP |-> "", IP |-> "",
   Time |-> 0]

\* trace.Message of record.go
RecMessage(type, content, headers) ==
  [Type |-> type, Content |-> content, Headers |-> headers]

\* the RequestSignature getTraceInfo builds (Time is left zero)
RequestSignature(headers) ==
  [UserAgent |-> headers.UserAgent, ForwardedFor |-> headers.ForwardedFor,
   ConnectingIP |-> headers.ConnectingIP, IP |-> headers.IP]

Access(who, field, write) == [who |-> who, field |-> field, write |-> write]

\* r.msgChan <- msg from a goroutine that is not processEvents
recCanSend ==
  /\ recPc # "crashed"
  /\ ~recClosed
  /\ Len(recMessages) + Len(recChan) < MaxSends
  /\ Len(recChan) < RecChanCap

\* RecordManager.ProcessRequest, on the goroutine of the HTTP handler
ProcessRequest(headers) ==
  /\ recCanSend
  /\ recChan' = Append(recChan, RecMessage("Trace", "", headers))
  /\ UNCHANGED <<recClosed, recMessages, recSeen, recNodeCount,
                 recNodeRequests, recDone, recPc, recHaveSeen, recCtxDone,
                 recApiPc, recOut, recAccess>>

recProcessRequest == \E headers \in RecHeaders : ProcessRequest(headers)

\* RecordManager.AddApiResponse, first half: PrintNodeCounts reads
\* nodeCount and nodeRequests on the caller's goroutine and sends the
\* counts
PrintNodeCounts ==
  /\ recApiPc = "idle"
  /\ recCanSend
  /\ recChan' = Append(recChan,
        RecMessage("NodeCount",
                   [i \in 1..recNodeCount |-> <<i, recNodeRequests[i]>>],
                   RecZeroHeaders))
  /\ recAccess' = recAccess
        \cup {Access("producer", "nodeCount", FALSE)}
        \cup (IF recNodeCount > 0
                THEN {Access("producer", "nodeRequests", FALSE)} ELSE {})
  /\ recApiPc' = "counted"
  /\ UNCHANGED <<recClosed, recMessages, recSeen, recNodeCount,
                 recNodeRequests, recDone, recPc, recHaveSeen, recCtxDone,
                 recOut>>

\* PrintNodeCounts reading the map while getTraceInfo is writing it: the
\* runtime may stop the process (concurrent map read and map write)
PrintNodeCountsFatal ==
  /\ recApiPc = "idle"
  /\ recPc = "count"
  /\ recNodeCount > 0
  /\ recPc' = "crashed"
  /\ recApiPc' = "crashed"
  /\ recAccess' = recAccess
        \cup {Access("producer", "nodeCount", FALSE),
              Access("producer", "nodeRequests", FALSE)}
  /\ UNCHANGED <<recChan, recClosed, recMessages, recSeen, recNodeCount,
                 recNodeRequests, recDone, recHaveSeen, recCtxDone, recOut>>

\* RecordManager.AddApiResponse, second half: the API message
AddApiResponse ==
  /\ recApiPc = "counted"
  /\ recCanSend
  /\ recChan' = Append(recChan, RecMessage("API", "resp", RecZeroHeaders))
  /\ recApiPc' = "sent"
  /\ UNCHANGED <<recClosed, recMessages, recSeen, recNodeCount,
                 recNodeRequests, recDone, recPc, recHaveSeen, recCtxDone,
                 recOut, recAccess>>

\* RecordManager.AddCloseMessage
AddCloseMessage ==
  /\ recCanSend
  /\ recChan' = Append(recChan, RecMessage("Close", "", RecZeroHeaders))
  /\ UNCHANGED <<recClosed, recMessages, recSeen, recNodeCount,
                 recNodeRequests, recDone, recPc, recHaveSeen, recCtxDone,
                 recApiPc, recOut, recAccess>>

\* the caller's timeout or cancel
recCancel ==
  /\ ~recCtxDone
  /\ recCtxDone' = TRUE
  /\ UNCHANGED <<recChan, recClosed, recMessages, recSeen, recNodeCount,
                 recNodeRequests, recDone, recPc, recHaveSeen, recApiPc,
                 recOut, recAccess>>

\* RecordManager.Shutdown: close(r.msgChan)
recShutdown ==
  /\ ~recClosed
  /\ recPc # "crashed"
  /\ recClosed' = TRUE
  /\ UNCHANGED <<recChan, recMessages, recSeen, recNodeCount,
                 recNodeRequests, recDone, recPc, recHaveSeen, recCtxDone,
                 recApiPc, recOut, recAccess>>

\* processEvents, case <-ctx.Done(): return, the deferred close runs
recProcCtxDone ==
  /\ recPc = "select"
  /\ recCtxDone
  /\ recPc' = "returned"
  /\ recDone' = recDone + 1
  /\ UNCHANGED <<recChan, recClosed, recMessages, recSeen, recNodeCount,
                 recNodeRequests, recHaveSeen, recCtxDone, recApiPc, recOut,
                 recAccess>>

\* processEvents receives a trace message; getTraceInfo up to the update
\* of nodeRequests: the signature is looked up in seen and, if new,
\* counted and marked
getTraceInfo ==
  /\ recPc = "select"
  /\ recChan # <<>>
  /\ Head(recChan).Type = "Trace"
  /\ recChan' = Tail(recChan)
  /\ recMessages' = Append(recMessages, Head(recChan))
  /\ LET sig == RequestSignature(Head(recChan).Headers) IN
     IF sig \notin recSeen
       THEN /\ recNodeCount' = recNodeCount + 1
            /\ recSeen' = recSeen \cup {sig}
            /\ recHaveSeen' = FALSE
            /\ recAccess' = recAccess \cup
                 {Access("control", "seen", FALSE),
                  Access("control", "seen", TRUE),
                  Access("control", "nodeCount", TRUE)}
       ELSE /\ recHaveSeen' = TRUE
            /\ recAccess' = recAccess \cup {Access("control", "seen", FALSE)}
            /\ UNCHANGED <<recNodeCount, recSeen>>
  /\ recPc' = "count"
  /\ UNCHANGED <<recClosed, recNodeRequests, recDone, recCtxDone, recApiPc,
                 recOut>>

\* getTraceInfo from r.nodeRequests[r.nodeCount]++ on, and the rest of the
\* case: a signature not seen before is printed with its node number
getTraceInfoCount ==
  /\ recPc = "count"
  /\ recNodeRequests' =
       [recNodeRequests EXCEPT ![recNodeCount] = @ + 1]
  /\ recAccess' = recAccess \cup
       {Access("control", "nodeCount", FALSE),
        Access("control", "nodeRequests", TRUE)}
  /\ recOut' = IF recHaveSeen THEN recOut
               ELSE Append(recOut, [kind |-> "trace",
                                    content |-> recNodeCount])
  /\ recPc' = "select"
  /\ UNCHANGED <<recChan, recClosed, recMessages, recSeen, recNodeCount,
                 recDone, recHaveSeen, recCtxDone, recApiPc>>

\* processEvents, the cases that only print: MessageTypeAPI and
\* MessageTypeNodeCount (MessageTypeError and MessageTypeCheckEnd print
\* alike and are not sent by the producers modelled)
recProcPrint ==
  /\ recPc = "select"
  /\ recChan # <<>>
  /\ Head(recChan).Type \in {"API", "NodeCount"}
  /\ recChan' = Tail(recChan)
  /\ recMessages' = Append(recMessages, Head(recChan))
  /\ recOut' = Append(recOut, [kind |-> Head(recChan).Type,
                               content |-> Head(recChan).Content])
  /\ UNCHANGED <<recClosed, recSeen, recNodeCount, recNodeRequests, recDone,
                 recPc, recHaveSeen, recCtxDone, recApiPc, recAccess>>

\* processEvents, case MessageTypeClose: return
recProcClose ==
  /\ recPc = "select"
  /\ recChan # <<>>
  /\ Head(recChan).Type = "Close"
  /\ recChan' = Tail(recChan)
  /\ recMessages' = Append(recMessages, Head(recChan))
  /\ recPc' = "returned"
  /\ recDone' = recDone + 1
  /\ UNCHANGED <<recClosed, recSeen, recNodeCount, recNodeRequests,
                 recHaveSeen, recCtxDone, recApiPc, recOut, recAccess>>

\* processEvents, the receive with !ok: the channel is closed and drained
recProcClosed ==
  /\ recPc = "select"
  /\ recChan = <<>>
  /\ recClosed
  /\ recPc' = "returned"
  /\ recDone' = recDone + 1
  /\ UNCHANGED <<recChan, recClosed, recMessages, recSeen, recNodeCount,
                 recNodeRequests, recHaveSeen, recCtxDone, recApiPc, recOut,
                 recAccess>>

notRecVars == <<traceVars, sigVars, piVars, rmVars, srvVars, moreVars>>

NextRec ==
  \/ (recProcessRequest /\ UNCHANGED notRecVars)
  \/ (PrintNodeCounts /\ UNCHANGED notRecVars)
  \/ (PrintNodeCountsFatal /\ UNCHANGED notRecVars)
  \/ (AddApiResponse /\ UNCHANGED notRecVars)
  \/ (AddCloseMessage /\ UNCHANGED notRecVars)
  \/ (recCancel /\ UNCHANGED notRecVars)
  \/ (recShutdown /\ UNCHANGED notRecVars)
  \/ (recProcCtxDone /\ UNCHANGED notRecVars)
  \/ (getTraceInfo /\ UNCHANGED notRecVars)
  \/ (getTraceInfoCount /\ UNCHANGED notRecVars)
  \/ (recProcPrint /\ UNCHANGED notRecVars)
  \/ (recProcClose /\ UNCHANGED notRecVars)
  \/ (recProcClosed /\ UNCHANGED notRecVars)

SpecRec == Init /\ [][NextRec]_vars

\* ------------------------------------------------------------------------
\* server.Server: handleImage and SendPostRequest around the captcha cache
\* ------------------------------------------------------------------------

\* the holder id of the goroutine running SendPostRequest
PostId == MaxRequests + 1

\* the k-th result of imgGen.GenerateCaptcha: fresh random digits and
\* their image
CaptchaResult(k) == [Image |-> k, Text |-> <<k>>]

\* a Lock that does not wait for the holder
LockNoWait(who) == captchaCacheLock' = who

\* s.captchaCacheLock.Lock()
Lock(who) == captchaCacheLock = 0 /\ captchaCacheLock' = who

\* s.captchaCacheLock.Unlock()
Unlock == captchaCacheLock' = 0

\* a send that is dropped
srvSendDropped(msgs) == UNCHANGED <<msgChan, sentLog, ctxDone, cancelAt>>

\* s.msgChan <- each message of msgs, in order
srvSend(msgs) ==
  /\ Len(msgChan) + Len(msgs) <= MsgChanCap
  /\ msgChan' = msgChan \o msgs
  /\ sentLog' = sentLog \o msgs
  /\ UNCHANGED <<ctxDone, cancelAt>>

\* the node message of handleImage's deferred function
imgNodeMessage(t) ==
  Message("Node", "", <<>>, "", RequestHeaders(t[1], t[2], 0, t[3]))

\* requestMsg of SendPostRequest: the prompt and the captcha text
requestMsg(text) == <<"prompt", text>>

\* handleImage up to the deferred function: a request with another id is
\* answered 404 and leaves no message
imgRequest(h) ==
  /\ imgPc[h] = "idle"
  /\ \E idOk \in BOOLEAN :
       IF idOk
         THEN /\ imgPc' = [imgPc EXCEPT ![h] = "lock"]
              /\ UNCHANGED imgResponse
         ELSE /\ imgPc' = [imgPc EXCEPT ![h] = "done"]
              /\ imgResponse' =
                   [imgResponse EXCEPT ![h] = [status |-> 404, image |-> 0]]
  /\ UNCHANGED <<captchaCache, captchaCacheLock, imgCaptcha, postPc,
                 postText, srvDone, generated, envVars>>

imgLock(h) ==
  /\ imgPc[h] = "lock"
  /\ Lock(h)
  /\ imgPc' = [imgPc EXCEPT ![h] = "check"]
  /\ UNCHANGED <<captchaCache, imgCaptcha, imgResponse, postPc, postText,
                 srvDone, generated, envVars>>

\* if s.captchaCache == nil
imgCheck(h) ==
  /\ imgPc[h] = "check"
  /\ imgPc' = [imgPc EXCEPT ![h] =
                 IF captchaCache = NoCaptcha THEN "generate" ELSE "read"]
  /\ UNCHANGED <<captchaCache, captchaCacheLock, imgCaptcha, imgResponse,
                 postPc, postText, srvDone, generated, envVars>>

\* GenerateCaptcha: the result is cached, or on an error the handler
\* unlocks, answers 500 and returns (the deferred send runs)
imgGenerate(h) ==
  /\ imgPc[h] = "generate"
  /\ \E ok \in BOOLEAN :
       IF ok
         THEN /\ captchaCache' = CaptchaResult(Len(generated) + 1)
              /\ generated' =
                   Append(generated, CaptchaResult(Len(generated) + 1))
              /\ imgPc' = [imgPc EXCEPT ![h] = "read"]
              /\ UNCHANGED <<captchaCacheLock, imgResponse, envVars>>
         ELSE /\ Unlock
              /\ imgResponse' =
                   [imgResponse EXCEPT ![h] = [status |-> 500, image |-> 0]]
              /\ imgPc' = [imgPc EXCEPT ![h] = "done"]
              /\ \E t \in HeaderTuples : srvSend(<<imgNodeMessage(t)>>)
              /\ UNCHANGED <<captchaCache, generated>>
  /\ UNCHANGED <<imgCaptcha, postPc, postText, srvDone>>

\* captcha := s.captchaCache; Unlock
imgRead(h) ==
  /\ imgPc[h] = "read"
  /\ imgCaptcha' = [imgCaptcha EXCEPT ![h] = captchaCache]
  /\ Unlock
  /\ imgPc' = [imgPc EXCEPT ![h] = "respond"]
  /\ UNCHANGED <<captchaCache, imgResponse, postPc, postText, srvDone,
                 generated, envVars>>

\* c.Data(200, "image/png", captcha.Image), then the deferred send
imgRespond(h) ==
  /\ imgPc[h] = "respond"
  /\ imgResponse' =
       [imgResponse EXCEPT
          ![h] = [status |-> 200, image |-> imgCaptcha[h].Image]]
  /\ imgPc' = [imgPc EXCEPT ![h] = "done"]
  /\ \E t \in HeaderTuples : srvSend(<<imgNodeMessage(t)>>)
  /\ UNCHANGED <<captchaCache, captchaCacheLock, imgCaptcha, postPc,
                 postText, srvDone, generated>>

\* SendPostRequest after <-s.tunnel.Ready(): a tunnel URL that is an error
\* is reported and ends the run
postStart ==
  /\ postPc = "start"
  /\ \E urlErr \in BOOLEAN :
       IF urlErr
         THEN /\ \E e \in ErrorTexts :
                   srvSend(<<Message("Error", e, <<>>, "", NilHeaders)>>)
              /\ srvDone' = srvDone + 1
              /\ postPc' = "done"
         ELSE /\ postPc' = "lock"
              /\ UNCHANGED <<srvDone, envVars>>
  /\ UNCHANGED <<captchaCache, captchaCacheLock, imgPc, imgCaptcha,
                 imgResponse, postText, generated>>

postLock ==
  /\ postPc = "lock"
  /\ Lock(PostId)
  /\ postPc' = "check"
  /\ UNCHANGED <<captchaCache, imgPc, imgCaptcha, imgResponse, postText,
                 srvDone, generated, envVars>>

\* if s.captchaCache == nil
postCheck ==
  /\ postPc = "check"
  /\ postPc' = IF captchaCache = NoCaptcha THEN "generate" ELSE "read"
  /\ UNCHANGED <<captchaCache, captchaCacheLock, imgPc, imgCaptcha,
                 imgResponse, postText, srvDone, generated, envVars>>

\* GenerateCaptcha: the result is cached, or on an error the function
\* unlocks, reports the error, closes done and returns
postGenerate ==
  /\ postPc = "generate"
  /\ \E ok \in BOOLEAN :
       IF ok
         THEN /\ captchaCache' = CaptchaResult(Len(generated) + 1)
              /\ generated' =
                   Append(generated, CaptchaResult(Len(generated) + 1))
              /\ postPc' = "read"
              /\ UNCHANGED <<captchaCacheLock, srvDone, envVars>>
         ELSE /\ Unlock
              /\ \E e \in ErrorTexts :
                   srvSend(<<Message("Error", e, <<>>, "", NilHeaders)>>)
              /\ srvDone' = srvDone + 1
              /\ postPc' = "done"
              /\ UNCHANGED <<captchaCache, generated>>
  /\ UNCHANGED <<imgPc, imgCaptcha, imgResponse, postText>>

\* captchaText := s.captchaCache.Text; Unlock
postRead ==
  /\ postPc = "read"
  /\ postText' = captchaCache.Text
  /\ Unlock
  /\ postPc' = "chat"
  /\ UNCHANGED <<captchaCache, imgPc, imgCaptcha, imgResponse, srvDone,
                 generated, envVars>>

\* ChatRequest and its report: a timeout sends an Error message and then
\* the API message as well; another error sends an Error message with the
\* request and closes done; a response sends the API message
postChat ==
  /\ postPc = "chat"
  /\ postPc' = "done"
  /\ \E outcome \in {"response", "timeout", "error"} :
       CASE outcome = "response" ->
              /\ \E r \in ResponseTexts :
                   srvSend(<<Message("API", "", requestMsg(postText), r,
                                     NilHeaders)>>)
              /\ UNCHANGED srvDone
         [] outcome = "timeout" ->
              /\ \E e \in ErrorTexts :
                   srvSend(<<Message("Error", e, <<>>, "", NilHeaders),
                             Message("API", "", requestMsg(postText), "",
                                     NilHeaders)>>)
              /\ UNCHANGED srvDone
         [] outcome = "error" ->
              /\ \E e \in ErrorTexts :
                   srvSend(<<Message("Error", e, requestMsg(postText), "",
                                     NilHeaders)>>)
              /\ srvDone' = srvDone + 1
  /\ UNCHANGED <<captchaCache, captchaCacheLock, imgPc, imgCaptcha,
                 imgResponse, postText, generated>>

notSrvVars ==
  <<mgrVars, tmVars, sigVars, piVars, rmVars, recVars, moreVars>>

NextSrv ==
  \/ \E h \in 1..MaxRequests : imgRequest(h) /\ UNCHANGED notSrvVars
  \/ \E h \in 1..MaxRequests : imgLock(h) /\ UNCHANGED notSrvVars
  \/ \E h \in 1..MaxRequests : imgCheck(h) /\ UNCHANGED notSrvVars
  \/ \E h \in 1..MaxRequests : imgGenerate(h) /\ UNCHANGED notSrvVars
  \/ \E h \in 1..MaxRequests : imgRead(h) /\ UNCHANGED notSrvVars
  \/ \E h \in 1..MaxRequests : imgRespond(h) /\ UNCHANGED notSrvVars
  \/ (postStart /\ UNCHANGED notSrvVars)
  \/ (postLock /\ UNCHANGED notSrvVars)
  \/ (postCheck /\ UNCHANGED notSrvVars)
  \/ (postGenerate /\ UNCHANGED notSrvVars)
  \/ (postRead /\ UNCHANGED notSrvVars)
  \/ (postChat /\ UNCHANGED notSrvVars)

SpecSrv == Init /\ [][NextSrv]_vars

\* ------------------------------------------------------------------------
\* trace.Manager with the call of ipProvider.GetIPInfo as a step of its own
\* ------------------------------------------------------------------------

\* pollMessages receives a node message.  A message without headers is
\* skipped and a message an existing node matches is counted at once; for
\* a new node handleNodeMessage, holding t.mu, calls GetIPInfo and the
\* goroutine stays in that call until it returns.
lkPollNode ==
  /\ pollPc = "select"
  /\ msgChan # <<>>
  /\ Head(msgChan).Type = "Node"
  /\ msgChan' = Tail(msgChan)
  /\ IF Head(msgChan).Headers = NilHeaders
       THEN /\ received' = Received(Head(msgChan), 0)
            /\ UNCHANGED <<nodes, printed, pollPc, lookupMsg>>
       ELSE IF FirstMatch(nodes, Head(msgChan)) # 0
         THEN LET r == handleNodeMessage(nodes, Head(msgChan),
                                         CHOOSE i \in IPInfoResults : TRUE)
              IN /\ nodes' = r.nodes
                 /\ printed' = printed \o NodeOutput(r.node)
                 /\ received' = Received(Head(msgChan), r.node.NodeIndex)
                 /\ UNCHANGED <<pollPc, lookupMsg>>
         ELSE /\ pollPc' = "lookup"
              /\ lookupMsg' = Head(msgChan)
              /\ UNCHANGED <<nodes, printed, received>>
  /\ UNCHANGED <<done, sentLog, ctxDone, cancelAt, tmVars>>

\* GetIPInfo returns: the node is completed, appended and printed
lkLookupReturn ==
  /\ pollPc = "lookup"
  /\ \E info \in IPInfoResults :
       LET r == handleNodeMessage(nodes, lookupMsg, info) IN
       /\ nodes' = r.nodes
       /\ printed' = printed \o NodeOutput(r.node)
       /\ received' = Received(lookupMsg, r.node.NodeIndex)
  /\ pollPc' = "select"
  /\ lookupMsg' = NilMsg
  /\ UNCHANGED <<done, envVars, tmVars>>

notLkVars ==
  <<sigVars, piVars, rmVars, recVars, srvVars, exVars, gnVars, pfVars,
    restVars>>

NextLk ==
  \/ (SendNode /\ UNCHANGED <<cancelAt, mgrVars, tmVars, otherVars>>)
  \/ (SendAPI /\ UNCHANGED <<cancelAt, mgrVars, tmVars, otherVars>>)
  \/ (SendError /\ UNCHANGED <<cancelAt, mgrVars, tmVars, otherVars>>)
  \/ (Cancel /\ cancelAt' = Len(sentLog)
        /\ UNCHANGED <<mgrVars, tmVars, otherVars>>)
  \/ (PollCtxDone /\ UNCHANGED otherVars)
  \/ (lkPollNode /\ UNCHANGED notLkVars)
  \/ (lkLookupReturn /\ UNCHANGED notLkVars)
  \/ (PollAPI /\ UNCHANGED otherVars)
  \/ (PollError /\ UNCHANGED otherVars)

SpecLk == Init /\ [][NextLk]_vars

\* ------------------------------------------------------------------------
\* apitest.Executor.TestAllChannels
\* ------------------------------------------------------------------------

\* the channels and models of the test configs
ExChannels == {"ch1", "ch2"}

ExModels == {"m1", "m2"}

ExConfigSet == [Channel : ExChannels, Model : ExModels]

\* what BuildRequest, client.Do and ProcessResponse do in a call of
\* TestChannel: one of them fails, or all succeed
ExOutcomes == {"ok", "build", "do", "process"}

\* Executor.TestChannel: the result carries the channel and model of cfg on
\* every path, and the error returned is always nil
TestChannel(cfg, outcome) ==
  IF outcome = "ok"
    THEN [result |-> [Channel |-> cfg.Channel, Model |-> cfg.Model,
                      Success |-> TRUE, Error |-> ""],
          err |-> FALSE]
    ELSE [result |-> [Channel |-> cfg.Channel, Model |-> cfg.Model,
                      Success |-> FALSE, Error |-> outcome],
          err |-> FALSE]

\* configs of up to MaxConfigs entries, MaxConcurrency 1 or 2
InitEx ==
  /\ InitTrace /\ InitSigIdle /\ InitPiIdle /\ InitRm /\ InitRec /\ InitSrv
  /\ InitLk /\ InitGn /\ InitPfIdle /\ InitRest
  /\ \E n \in 0..MaxConfigs : \E configs \in [1..n -> ExConfigSet] :
       \E max \in 1..2 : ExEntered(configs, max)

\* the loop: wg.Add(1); go func(index, config)
exSpawn ==
  /\ exSpawned < Len(exConfigs)
  /\ exSpawned' = exSpawned + 1
  /\ exWg' = exWg + 1
  /\ exPc' = [exPc EXCEPT ![exSpawned + 1] = "acquire"]
  /\ UNCHANGED <<exConfigs, exMax, exLocal, exResults, exSem, exReturned,
                 exOrder>>

\* an acquire that does not wait for a free token
exAcquireNoWait(i) ==
  /\ exPc[i] = "acquire"
  /\ exSem' = exSem + 1
  /\ exPc' = [exPc EXCEPT ![i] = "test"]
  /\ UNCHANGED <<exConfigs, exMax, exSpawned, exLocal, exResults, exWg,
                 exReturned, exOrder>>

\* sem <- struct{}{}: blocks while MaxConcurrency tokens are held
exAcquire(i) ==
  /\ exPc[i] = "acquire"
  /\ exSem < exMax
  /\ exSem' = exSem + 1
  /\ exPc' = [exPc EXCEPT ![i] = "test"]
  /\ UNCHANGED <<exConfigs, exMax, exSpawned, exLocal, exResults, exWg,
                 exReturned, exOrder>>

\* result, err := e.TestChannel(ctx, config), with the substitute result
\* when err is not nil
exTestChannel(i) ==
  /\ exPc[i] = "test"
  /\ \E outcome \in ExOutcomes :
       LET r == TestChannel(exConfigs[i], outcome) IN
       exLocal' = [exLocal EXCEPT ![i] =
                     IF r.err
                       THEN [Channel |-> exConfigs[i].Channel,
                             Model |-> exConfigs[i].Model,
                             Success |-> FALSE, Error |-> "err"]
                       ELSE r.result]
  /\ exPc' = [exPc EXCEPT ![i] = "store"]
  /\ UNCHANGED <<exConfigs, exMax, exSpawned, exResults, exSem, exWg,
                 exReturned, exOrder>>

\* a store at the next free position, in the order of completion
exStoreAppend(i) ==
  /\ exPc[i] = "store"
  /\ exResults' = [exResults EXCEPT ![Len(exOrder) + 1] = exLocal[i]]
  /\ exOrder' = Append(exOrder, i)
  /\ exPc' = [exPc EXCEPT ![i] = "release"]
  /\ UNCHANGED <<exConfigs, exMax, exSpawned, exLocal, exSem, exWg,
                 exReturned>>

\* results[index] = result
exStore(i) ==
  /\ exPc[i] = "store"
  /\ exResults' = [exResults EXCEPT ![i] = exLocal[i]]
  /\ exOrder' = Append(exOrder, i)
  /\ exPc' = [exPc EXCEPT ![i] = "release"]
  /\ UNCHANGED <<exConfigs, exMax, exSpawned, exLocal, exSem, exWg,
                 exReturned>>

\* the deferred calls: <-sem, then wg.Done()
exRelease(i) ==
  /\ exPc[i] = "release"
  /\ exSem' = exSem - 1
  /\ exWg' = exWg - 1
  /\ exPc' = [exPc EXCEPT ![i] = "done"]
  /\ UNCHANGED <<exConfigs, exMax, exSpawned, exLocal, exResults,
                 exReturned, exOrder>>

\* wg.Wait(); return results
exWait ==
  /\ exSpawned = Len(exConfigs)
  /\ exWg = 0
  /\ exReturned = NotReturned
  /\ exReturned' = [returned |-> TRUE, results |-> exResults]
  /\ UNCHANGED <<exConfigs, exMax, exSpawned, exPc, exLocal, exResults,
                 exSem, exWg, exOrder>>

notExVars ==
  <<traceVars, sigVars, piVars, rmVars, recVars, srvVars, lkVars, gnVars,
    pfVars, restVars>>

NextEx ==
  \/ (exSpawn /\ UNCHANGED notExVars)
  \/ \E i \in 1..Len(exConfigs) : exAcquire(i) /\ UNCHANGED notExVars
  \/ \E i \in 1..Len(exConfigs) : exTestChannel(i) /\ UNCHANGED notExVars
  \/ \E i \in 1..Len(exConfigs) : exStore(i) /\ UNCHANGED notExVars
  \/ \E i \in 1..Len(exConfigs) : exRelease(i) /\ UNCHANGED notExVars
  \/ (exWait /\ UNCHANGED notExVars)

SpecEx == InitEx /\ [][NextEx]_vars

\* ------------------------------------------------------------------------
\* TraceManager.GetNodes called from outside pollMessages
\* ------------------------------------------------------------------------

\* GetNodes up to t.nodesChan <- nodeOperation{op: opGet}: the channel is
\* unbuffered, the caller waits for handleNodeOperations to receive
gnCall ==
  /\ gnPc = "idle"
  /\ gnPc' = "send"
  /\ UNCHANGED <<gnSnap, traceVars>>

\* handleNodeOperations: case opGet for the outside caller, which receives
\* the copy from the response channel and returns it
gnOpsGet ==
  /\ tmOpsPc = "select"
  /\ gnPc = "send"
  /\ gnSnap' = tmNodes
  /\ gnPc' = "returned"
  /\ UNCHANGED traceVars

notGnVars ==
  <<sigVars, piVars, rmVars, recVars, srvVars, lkVars, exVars, pfVars,
    restVars>>

NextGn ==
  \/ (SendNode /\ UNCHANGED <<cancelAt, mgrVars, tmVars, otherVars>>)
  \/ (SendAPI /\ UNCHANGED <<cancelAt, mgrVars, tmVars, otherVars>>)
  \/ (SendError /\ UNCHANGED <<cancelAt, mgrVars, tmVars, otherVars>>)
  \/ (Cancel /\ UNCHANGED <<cancelAt, mgrVars, tmVars, otherVars>>)
  \/ (tmPollCtxDone /\ UNCHANGED <<mgrVars, otherVars>>)
  \/ (tmTimerFire /\ UNCHANGED <<mgrVars, otherVars>>)
  \/ (tmPollTimeout /\ UNCHANGED <<mgrVars, otherVars>>)
  \/ (tmPollNode /\ UNCHANGED <<mgrVars, otherVars>>)
  \/ (tmPollAPI /\ UNCHANGED <<mgrVars, otherVars>>)
  \/ (tmPollError /\ UNCHANGED <<mgrVars, otherVars>>)
  \/ (tmOpsCtxDone /\ UNCHANGED <<mgrVars, otherVars>>)
  \/ (tmOpsHandle /\ UNCHANGED <<mgrVars, otherVars>>)
  \/ (tmOpsGet /\ UNCHANGED <<mgrVars, otherVars>>)
  \/ (tmPollHandled /\ UNCHANGED <<mgrVars, otherVars>>)
  \/ (tmPollNotify /\ UNCHANGED <<mgrVars, otherVars>>)
  \/ (tmPollReport /\ UNCHANGED <<mgrVars, otherVars>>)
  \/ (tmPollReportError /\ UNCHANGED <<mgrVars, otherVars>>)
  \/ (gnCall /\ UNCHANGED notGnVars)
  \/ (gnOpsGet /\ UNCHANGED notGnVars)

SpecGn == Init /\ [][NextGn]_vars

\* ------------------------------------------------------------------------
\* Server.findAvailablePort (main.go) and util.FindAvailablePort
\* ------------------------------------------------------------------------

\* the number of ports both loops try
PortTries == 10

\* a search that tries one port more
findAvailablePortOneMore(port, i, avail) ==
  IF \E k \in 0..(PortTries - i) : port + k \in avail
    THEN CHOOSE q \in port..(port + PortTries - i) :
           q \in avail /\ \A r \in port..(q - 1) : r \notin avail
    ELSE 0

RECURSIVE findAvailablePort(_, _, _)
\* Server.findAvailablePort from its i-th iteration: for i < 10, return
\* port when the checker reports it available, else port++; return 0
findAvailablePort(port, i, avail) ==
  IF ~(i < PortTries) THEN 0
  ELSE IF port \in avail THEN port
  ELSE findAvailablePort(port + 1, i + 1, avail)

RECURSIVE FindAvailablePortFrom(_, _, _)
\* the loop of util.FindAvailablePort at port: for port < startPort+10
FindAvailablePortFrom(startPort, port, avail) ==
  IF ~(port < startPort + PortTries) THEN 0
  ELSE IF port \in avail THEN port
  ELSE FindAvailablePortFrom(startPort, port + 1, avail)

\* util.FindAvailablePort
FindAvailablePort(startPort, avail) ==
  FindAvailablePortFrom(startPort, startPort, avail)

\* the ports of the model: the ten a search from the highest start tries,
\* and the one after them
PfPorts == 1..(MaxStartPort + PortTries)

\* a start port and the set of ports that are available
InitPf ==
  /\ InitTrace /\ InitSigIdle /\ InitPiIdle /\ InitRm /\ InitRec /\ InitSrv
  /\ InitLk /\ InitExIdle /\ InitGn /\ InitRest
  /\ pfIn \in [start : 1..MaxStartPort, avail : SUBSET PfPorts]
  /\ pfOut = NotSearched

\* both searches run from the start port
CallPf ==
  /\ ~pfOut.called
  /\ pfOut' = [called |-> TRUE,
               main |-> findAvailablePort(pfIn.start, 0, pfIn.avail),
               util |-> FindAvailablePort(pfIn.start, pfIn.avail)]
  /\ UNCHANGED <<pfIn, traceVars, sigVars, piVars, rmVars, recVars, srvVars,
                 lkVars, exVars, gnVars, restVars>>

NextPf == CallPf

SpecPf == InitPf /\ [][NextPf]_vars

\* ------------------------------------------------------------------------
\* runDetection (cmd/check-gpt) waiting for trace.Manager
\* ------------------------------------------------------------------------

\* case <-ctx.Done(): return fmt.Errorf("context cancelled")
rdCtxDone ==
  /\ rdPc = "select"
  /\ ctxDone
  /\ rdPc' = "returned"
  /\ rdResult' = ErrCancelled
  /\ UNCHANGED traceVars

\* case <-tracer.Done(): the success line is printed and, after the user
\* pressed enter, nil is returned
rdTracerDone ==
  /\ rdPc = "select"
  /\ done > 0
  /\ rdPc' = "returned"
  /\ rdResult' = NoError
  /\ UNCHANGED traceVars

notRdVars ==
  <<sigVars, piVars, rmVars, recVars, srvVars, lkVars, exVars, gnVars,
    pfVars, alVars, flVars, ctVars, tnVars>>

NextRd ==
  \/ (SendNode /\ UNCHANGED <<cancelAt, mgrVars, tmVars, otherVars>>)
  \/ (SendAPI /\ UNCHANGED <<cancelAt, mgrVars, tmVars, otherVars>>)
  \/ (SendError /\ UNCHANGED <<cancelAt, mgrVars, tmVars, otherVars>>)
  \/ (Cancel /\ cancelAt' = Len(sentLog)
        /\ UNCHANGED <<mgrVars, tmVars, otherVars>>)
  \/ (PollCtxDone /\ UNCHANGED otherVars)
  \/ (PollNode /\ UNCHANGED otherVars)
  \/ (PollAPI /\ UNCHANGED otherVars)
  \/ (PollError /\ UNCHANGED otherVars)
  \/ (rdCtxDone /\ UNCHANGED notRdVars)
  \/ (rdTracerDone /\ UNCHANGED notRdVars)

SpecRd == Init /\ [][NextRd]_vars

\* ------------------------------------------------------------------------
\* The first TraceManager of part_016: handleNodeMessage and GetNodes, with
\* the slices and pointers they hand out
\* ------------------------------------------------------------------------

\* calls of handleNodeMessage and GetNodes made in a run
MaxCalls == MaxSends + 1

\* the key of t.seen: the three fields joined by "|"
alSignature(headers) ==
  <<headers.UserAgent, "|", headers.ForwardedFor, "|", headers.IP>>

\* t.nodes: the content of the array behind the slice
alNodes == IF alCur = 0 THEN <<>> ELSE alArrays[alCur]

\* a pointer to a variable of its own, and a pointer into an array
CopyPtr(node) == [kind |-> "copy", node |-> node, arr |-> 0, idx |-> 0]

AliasPtr(arr, idx) ==
  [kind |-> "alias", node |-> ZeroNode, arr |-> arr, idx |-> idx]

\* the node a pointer points to now
Deref(ptr) ==
  IF ptr.kind = "copy" THEN ptr.node ELSE alArrays[ptr.arr][ptr.idx]

\* handleNodeMessage for a signature not yet seen: the node is appended to
\* t.nodes (in place, or into a new array when append has to grow the
\* slice) and the address of the local variable is returned
alHandleNew(msg) ==
  LET node == [ZeroNode EXCEPT
                 !.IP = msg.Headers.IP,
                 !.UserAgent = msg.Headers.UserAgent,
                 !.Time = msg.Headers.Time,
                 !.RequestCount = 1,
                 !.NodeIndex = Len(alNodes) + 1,
                 !.IsNew = TRUE,
                 !.ForwardedFor = msg.Headers.ForwardedFor]
  IN
  /\ alSignature(msg.Headers) \notin alSeen
  /\ alSeen' = alSeen \cup {alSignature(msg.Headers)}
  /\ \E grow \in BOOLEAN :
       IF grow \/ alCur = 0
         THEN /\ alArrays' = Append(alArrays, Append(alNodes, node))
              /\ alCur' = Len(alArrays) + 1
         ELSE /\ alArrays' = [alArrays EXCEPT ![alCur] = Append(@, node)]
              /\ UNCHANGED alCur
  /\ alHeld' = Append(alHeld, [ptr |-> CopyPtr(node), was |-> node])
  /\ UNCHANGED alSnaps

\* handleNodeMessage for a signature seen before: the node of that
\* signature is updated in t.nodes and &t.nodes[i] is returned
alHandleSeen(msg) ==
  LET sig == alSignature(msg.Headers)
      i == CHOOSE k \in 1..Len(alNodes) :
             /\ alSignature(alNodes[k]) = sig
             /\ \A l \in 1..(k - 1) : alSignature(alNodes[l]) # sig
      upd == [alNodes[i] EXCEPT !.RequestCount = @ + 1, !.IsNew = FALSE]
  IN
  /\ sig \in alSeen
  /\ alArrays' = [alArrays EXCEPT ![alCur][i] = upd]
  /\ alHeld' = Append(alHeld, [ptr |-> AliasPtr(alCur, i), was |-> upd])
  /\ UNCHANGED <<alCur, alSeen, alSnaps>>

\* a call of handleNodeMessage with a node message that has headers
alHandleNodeMessage ==
  /\ Len(alHeld) + Len(alSnaps) < MaxCalls
  /\ \E t \in HeaderTuples :
       LET msg == Message("Node", "", "", "",
                          RequestHeaders(t[1], t[2], Len(alHeld) + 1, t[3]))
       IN alHandleNew(msg) \/ alHandleSeen(msg)

\* GetNodes: make a slice of len(t.nodes), copy, return it
alGetNodes ==
  /\ Len(alHeld) + Len(alSnaps) < MaxCalls
  /\ alArrays' = Append(alArrays, alNodes)
  /\ alSnaps' = Append(alSnaps, [arr |-> Len(alArrays) + 1, was |-> alNodes])
  /\ UNCHANGED <<alCur, alSeen, alHeld>>

notAlVars ==
  <<traceVars, sigVars, piVars, rmVars, recVars, srvVars, lkVars, exVars,
    gnVars, pfVars, rdVars, flVars, ctVars, tnVars>>

NextAl ==
  \/ (alHandleNodeMessage /\ UNCHANGED notAlVars)
  \/ (alGetNodes /\ UNCHANGED notAlVars)

SpecAl == Init /\ [][NextAl]_vars

\* ------------------------------------------------------------------------
\* handleImage fetched again and again while trace.Manager reads msgChan
\* ------------------------------------------------------------------------

\* messages sent in a run of fetches: enough to fill msgChan after the
\* Manager has taken what it takes
MaxFetches == MsgChanCap + MaxSends + 1

\* the headers of the client that keeps fetching
FlClient == <<UAGo, "", IPPlain>>

\* handleImage up to its return: the id test, the response; with the right
\* id the deferred function is left to run
flRequest ==
  /\ flPc = "idle"
  /\ Len(sentLog) < MaxFetches
  /\ \E idOk \in BOOLEAN : flPc' = IF idOk THEN "send" ELSE "idle"
  /\ UNCHANGED <<envVars, mgrVars, tmVars, sigVars, piVars, rmVars, recVars,
                 srvVars, lkVars, exVars, gnVars, pfVars, rdVars, alVars,
                 ctVars, tnVars>>

\* the deferred function: s.msgChan <- the node message, which waits
\* while the buffer is full; then the handler has returned
flSend ==
  /\ flPc = "send"
  /\ Len(msgChan) < MsgChanCap
  /\ LET msg == Message("Node", "", "", "",
                        RequestHeaders(FlClient[1], FlClient[2],
                                       Len(sentLog) + 1, FlClient[3]))
     IN /\ msgChan' = Append(msgChan, msg)
        /\ sentLog' = Append(sentLog, msg)
  /\ flPc' = "idle"
  /\ UNCHANGED <<ctxDone, cancelAt, mgrVars, tmVars, sigVars,
                 piVars, rmVars, recVars, srvVars, lkVars, exVars, gnVars,
                 pfVars, rdVars, alVars, ctVars, tnVars>>

NextFl ==
  \/ flRequest
  \/ flSend
  \/ (SendAPI /\ UNCHANGED <<cancelAt, mgrVars, tmVars, otherVars>>)
  \/ (SendError /\ UNCHANGED <<cancelAt, mgrVars, tmVars, otherVars>>)
  \/ (PollNode /\ UNCHANGED otherVars)
  \/ (PollAPI /\ UNCHANGED otherVars)
  \/ (PollError /\ UNCHANGED otherVars)

SpecFl == Init /\ [][NextFl]_vars

\* ------------------------------------------------------------------------
\* ChannelTest.TestAllChannels: workers, the result channel, the collector
\* ------------------------------------------------------------------------

\* the configs, outcomes and settings of the calls that are explored
CtConfigSet == [Channel : {"ch1"}, Model : ExModels]

CtOutcomes == {"ok", "do"}

CtBuffers == {0, 1}

CtConcurrencies == {1, 2}

InitCt ==
  /\ InitTrace /\ InitSigIdle /\ InitPiIdle /\ InitRm /\ InitRec /\ InitSrv
  /\ InitLk /\ InitExIdle /\ InitGn /\ InitPfIdle /\ InitRd /\ InitAl
  /\ InitFl /\ InitTn
  /\ \E n \in 0..MaxConfigs : \E configs \in [1..n -> CtConfigSet] :
       \E max \in CtConcurrencies : \E buf \in CtBuffers :
         CtEntered(configs, max, buf)

\* the loop: wg.Add(1); go func(cfg)
ctSpawn ==
  /\ ctMain = "loop"
  /\ ctSpawned < Len(ctConfigs)
  /\ ctSpawned' = ctSpawned + 1
  /\ ctWg' = ctWg + 1
  /\ ctPc' = [ctPc EXCEPT ![ctSpawned + 1] = "acquire"]
  /\ UNCHANGED <<ctConfigs, ctMax, ctBuf, ctLocal, ctSem, ctChan, ctClosed,
                 ctResults, ctColl, ctMain, ctReturned>>

\* sem <- struct{}{}
ctAcquire(i) ==
  /\ ctPc[i] = "acquire"
  /\ ctSem < ctMax
  /\ ctSem' = ctSem + 1
  /\ ctPc' = [ctPc EXCEPT ![i] = "test"]
  /\ UNCHANGED <<ctConfigs, ctMax, ctBuf, ctSpawned, ctLocal, ctWg, ctChan,
                 ctClosed, ctResults, ctColl, ctMain, ctReturned>>

\* result, err := ct.TestChannel(ctx, cfg), with the substitute result when
\* err is not nil
ctTestChannel(i) ==
  /\ ctPc[i] = "test"
  /\ \E outcome \in CtOutcomes :
       LET r == TestChannel(ctConfigs[i], outcome) IN
       ctLocal' = [ctLocal EXCEPT ![i] =
                     IF r.err
                       THEN [Channel |-> ctConfigs[i].Channel,
                             Model |-> ctConfigs[i].Model,
                             Success |-> FALSE, Error |-> "err"]
                       ELSE r.result]
  /\ ctPc' = [ctPc EXCEPT ![i] = "send"]
  /\ UNCHANGED <<ctConfigs, ctMax, ctBuf, ctSpawned, ctSem, ctWg, ctChan,
                 ctClosed, ctResults, ctColl, ctMain, ctReturned>>

\* a send that the channel loses
ctSendLost(i) ==
  /\ ctPc[i] = "send"
  /\ ctPc' = [ctPc EXCEPT ![i] = "release"]
  /\ UNCHANGED <<ctConfigs, ctMax, ctBuf, ctSpawned, ctLocal, ctSem, ctWg,
                 ctChan, ctClosed, ctResults, ctColl, ctMain, ctReturned>>

\* resultChan <- result: into the buffer while it has room, or straight
\* to the collector waiting in its range; a send on the closed channel
\* panics
ctSend(i) ==
  /\ ctPc[i] = "send"
  /\ IF ctClosed
       THEN /\ ctPc' = [ctPc EXCEPT ![i] = "panic"]
            /\ UNCHANGED <<ctChan, ctResults>>
       ELSE /\ ctPc' = [ctPc EXCEPT ![i] = "release"]
            /\ \/ /\ Len(ctChan) < ctBuf
                  /\ ctChan' = Append(ctChan, ctLocal[i])
                  /\ UNCHANGED ctResults
               \/ /\ ctChan = <<>>
                  /\ ctColl = "range"
                  /\ ctResults' = Append(ctResults, ctLocal[i])
                  /\ UNCHANGED ctChan
  /\ UNCHANGED <<ctConfigs, ctMax, ctBuf, ctSpawned, ctLocal, ctSem, ctWg,
                 ctClosed, ctColl, ctMain, ctReturned>>

\* the deferred calls: <-sem, then wg.Done()
ctRelease(i) ==
  /\ ctPc[i] = "release"
  /\ ctSem' = ctSem - 1
  /\ ctWg' = ctWg - 1
  /\ ctPc' = [ctPc EXCEPT ![i] = "done"]
  /\ UNCHANGED <<ctConfigs, ctMax, ctBuf, ctSpawned, ctLocal, ctChan,
                 ctClosed, ctResults, ctColl, ctMain, ctReturned>>

\* the collector: for result := range resultChan, results = append(...)
ctCollect ==
  /\ ctColl = "range"
  /\ ctChan # <<>>
  /\ ctResults' = Append(ctResults, Head(ctChan))
  /\ ctChan' = Tail(ctChan)
  /\ UNCHANGED <<ctConfigs, ctMax, ctBuf, ctSpawned, ctPc, ctLocal, ctSem,
                 ctWg, ctClosed, ctColl, ctMain, ctReturned>>

\* the collector: the range ends on the closed and drained channel, then
\* close(done)
ctCollectEnd ==
  /\ ctColl = "range"
  /\ ctChan = <<>>
  /\ ctClosed
  /\ ctColl' = "done"
  /\ UNCHANGED <<ctConfigs, ctMax, ctBuf, ctSpawned, ctPc, ctLocal, ctSem,
                 ctWg, ctChan, ctClosed, ctResults, ctMain, ctReturned>>

\* wg.Wait() after the loop
ctWait ==
  /\ ctMain = "loop"
  /\ ctSpawned = Len(ctConfigs)
  /\ ctWg = 0
  /\ ctMain' = "close"
  /\ UNCHANGED <<ctConfigs, ctMax, ctBuf, ctSpawned, ctPc, ctLocal, ctSem,
                 ctWg, ctChan, ctClosed, ctResults, ctColl, ctReturned>>

\* close(resultChan)
ctClose ==
  /\ ctMain = "close"
  /\ ctClosed' = TRUE
  /\ ctMain' = "join"
  /\ UNCHANGED <<ctConfigs, ctMax, ctBuf, ctSpawned, ctPc, ctLocal, ctSem,
                 ctWg, ctChan, ctResults, ctColl, ctReturned>>

\* <-done; return results
ctReturn ==
  /\ ctMain = "join"
  /\ ctColl = "done"
  /\ ctMain' = "returned"
  /\ ctReturned' = [returned |-> TRUE, results |-> ctResults]
  /\ UNCHANGED <<ctConfigs, ctMax, ctBuf, ctSpawned, ctPc, ctLocal, ctSem,
                 ctWg, ctChan, ctClosed, ctResults, ctColl>>

notCtVars ==
  <<traceVars, sigVars, piVars, rmVars, recVars, srvVars, lkVars, exVars,
    gnVars, pfVars, rdVars, alVars, flVars, tnVars>>

NextCt ==
  \/ (ctSpawn /\ UNCHANGED notCtVars)
  \/ \E i \in 1..Len(ctConfigs) : ctAcquire(i) /\ UNCHANGED notCtVars
  \/ \E i \in 1..Len(ctConfigs) : ctTestChannel(i) /\ UNCHANGED notCtVars
  \/ \E i \in 1..Len(ctConfigs) : ctSend(i) /\ UNCHANGED notCtVars
  \/ \E i \in 1..Len(ctConfigs) : ctRelease(i) /\ UNCHANGED notCtVars
  \/ (ctCollect /\ UNCHANGED notCtVars)
  \/ (ctCollectEnd /\ UNCHANGED notCtVars)
  \/ (ctWait /\ UNCHANGED notCtVars)
  \/ (ctClose /\ UNCHANGED notCtVars)
  \/ (ctReturn /\ UNCHANGED notCtVars)

SpecCt == InitCt /\ [][NextCt]_vars

\* the scheduler runs every goroutine that can take a step
SpecCtFair == SpecCt /\ WF_vars(NextCt)

\* ------------------------------------------------------------------------
\* tunnel.Tunnel: waitForURL and its scanner, and SendPostRequest waiting
\* for the tunnel
\* ------------------------------------------------------------------------

\* Strings here are sequences of pieces, and a line is the sequence of its
\* whitespace-separated fields.

\* lines the scanner reads in a run
MaxLines == 2

\* lines of the ssh output: the tunnel URL, a welcome line with a URL that
\* is skipped, a line with a URL inside brackets, a line without a URL
TnLines ==
  { << <<"https://", "abc.lhr.life">> >>,
    << <<"follow">>, <<"https://", "twitter.com", "/localhost_run">> >>,
    << <<"(", "https://", "localhost.run", ")">> >>,
    << <<"authenticated">> >> }

\* strings.Contains(line, piece)
LineContains(line, piece) ==
  \E f \in 1..Len(line) : \E k \in 1..Len(line[f]) : line[f][k] = piece

\* strings.HasPrefix(str, piece)
HasPrefix(str, piece) == Len(str) > 0 /\ str[1] = piece

\* the welcome and documentation URLs that are skipped
SkippedPieces ==
  {"twitter.com", "localhost.run/docs", "admin.localhost.run",
   "localhost:3000"}

\* the fields of line that start with https://, in order
UrlParts(line) ==
  SelectSeq(line, LAMBDA part : HasPrefix(part, "https://"))

\* the URL the scanner finds in a line, NoUrl when it goes on to the next
ScanLine(line) ==
  IF \E piece \in SkippedPieces : LineContains(line, piece) THEN NoUrl
  ELSE IF LineContains(line, "https://") /\ UrlParts(line) # <<>>
    THEN Head(UrlParts(line))
  ELSE NoUrl

\* the url waitForURL stores for an error and for the timeout
ErrorUrl(text) == <<"Error:", text>>

\* the scanner goroutine: one Scan and the loop body; a URL is sent on
\* urlChan and the goroutine returns
tnScan ==
  /\ tnScanPc = "scan"
  /\ Len(tnScanned) < MaxLines
  /\ \E line \in TnLines :
       /\ tnScanned' = Append(tnScanned, line)
       /\ IF ScanLine(line) # NoUrl
            THEN /\ tnUrlChan' = Append(tnUrlChan, ScanLine(line))
                 /\ tnScanPc' = "done"
            ELSE UNCHANGED <<tnUrlChan, tnScanPc>>
  /\ UNCHANGED <<tnErrChan, tnWaitPc, tnUrl, tnReady>>

\* the scanner goroutine: Scan returns false, at the end of the output or
\* with an error that is sent on errChan
tnScanEnd ==
  /\ tnScanPc = "scan"
  /\ tnScanPc' = "done"
  /\ \E failed \in BOOLEAN :
       tnErrChan' = IF failed THEN Append(tnErrChan, "read failed")
                    ELSE tnErrChan
  /\ UNCHANGED <<tnScanned, tnUrlChan, tnWaitPc, tnUrl, tnReady>>

\* case url := <-urlChan
tnRecvUrl ==
  /\ tnWaitPc = "select"
  /\ tnUrlChan # <<>>
  /\ tnUrl' = Head(tnUrlChan)
  /\ tnUrlChan' = Tail(tnUrlChan)
  /\ tnReady' = tnReady + 1
  /\ tnWaitPc' = "returned"
  /\ UNCHANGED <<tnScanPc, tnScanned, tnErrChan>>

\* case err := <-errChan
tnRecvErr ==
  /\ tnWaitPc = "select"
  /\ tnErrChan # <<>>
  /\ tnUrl' = ErrorUrl(Head(tnErrChan))
  /\ tnErrChan' = Tail(tnErrChan)
  /\ tnReady' = tnReady + 1
  /\ tnWaitPc' = "returned"
  /\ UNCHANGED <<tnScanPc, tnScanned, tnUrlChan>>

\* case <-time.After(15 * time.Second)
tnTimeout ==
  /\ tnWaitPc = "select"
  /\ tnUrl' = ErrorUrl("Tunnel timeout")
  /\ tnReady' = tnReady + 1
  /\ tnWaitPc' = "returned"
  /\ UNCHANGED <<tnScanPc, tnScanned, tnUrlChan, tnErrChan>>

\* SendPostRequest that does not wait for the tunnel
tnPostStartNoWait ==
  /\ postPc = "start"
  /\ IF HasPrefix(tnUrl, "Error:")
       THEN /\ srvSend(<<Message("Error", <<"tunnel failed", tnUrl>>, <<>>,
                                 "", NilHeaders)>>)
            /\ srvDone' = srvDone + 1
            /\ postPc' = "done"
       ELSE /\ postPc' = "lock"
            /\ UNCHANGED <<srvDone, envVars>>
  /\ UNCHANGED <<captchaCache, captchaCacheLock, imgPc, imgCaptcha,
                 imgResponse, postText, generated>>

\* SendPostRequest: <-s.tunnel.Ready(), then a tunnel URL that is an error
\* is reported and ends the run
tnPostStart ==
  /\ postPc = "start"
  /\ tnReady > 0
  /\ IF HasPrefix(tnUrl, "Error:")
       THEN /\ srvSend(<<Message("Error", <<"tunnel failed", tnUrl>>, <<>>,
                                 "", NilHeaders)>>)
            /\ srvDone' = srvDone + 1
            /\ postPc' = "done"
       ELSE /\ postPc' = "lock"
            /\ UNCHANGED <<srvDone, envVars>>
  /\ UNCHANGED <<captchaCache, captchaCacheLock, imgPc, imgCaptcha,
                 imgResponse, postText, generated>>

notTnVars ==
  <<traceVars, sigVars, piVars, rmVars, recVars, srvVars, lkVars, exVars,
    gnVars, pfVars, rdVars, alVars, flVars, ctVars>>

notTnSrvVars ==
  <<mgrVars, tmVars, sigVars, piVars, rmVars, recVars, lkVars, exVars,
    gnVars, pfVars, rdVars, alVars, flVars, ctVars, tnVars>>

NextTn ==
  \/ (tnScan /\ UNCHANGED notTnVars)
  \/ (tnScanEnd /\ UNCHANGED notTnVars)
  \/ (tnRecvUrl /\ UNCHANGED notTnVars)
  \/ (tnRecvErr /\ UNCHANGED notTnVars)
  \/ (tnTimeout /\ UNCHANGED notTnVars)
  \/ (tnPostStart /\ UNCHANGED notTnSrvVars)
  \/ (postLock /\ UNCHANGED notSrvVars)
  \/ (postCheck /\ UNCHANGED notSrvVars)
  \/ (postGenerate /\ UNCHANGED notSrvVars)
  \/ (postRead /\ UNCHANGED notSrvVars)
  \/ (postChat /\ UNCHANGED notSrvVars)

SpecTn == Init /\ [][NextTn]_vars

\* ------------------------------------------------------------------------
\* Vocabulary of the properties
\* ------------------------------------------------------------------------

\* the identity of a fetch: (user agent, forwarded-for, source IP)
Identity(h) == <<h.UserAgent, h.ForwardedFor, h.IP>>

IsOutcome(msg) == msg.Type \in {"API", "Error"}

IsHopSeen(msg) == msg.Type = "Node" /\ msg.Headers # NilHeaders

\* positions of the hop-seen events in a history of received messages
HopEvents(hist) == {i \in 1..Len(hist) : IsHopSeen(hist[i].msg)}

\* positions of the outcome events in a history of received messages
OutcomeEvents(hist) == {i \in 1..Len(hist) : IsOutcome(hist[i].msg)}

\* the identities seen, and the positions at which each was seen first
IdentitiesSeen(hist) ==
  {Identity(hist[i].msg.Headers) : i \in HopEvents(hist)}

FirstSights(hist) ==
  {i \in HopEvents(hist) :
     \A j \in HopEvents(hist) :
        j < i => Identity(hist[j].msg.Headers) # Identity(hist[i].msg.Headers)}

\* the messages of a history
Msgs(hist) == [i \in 1..Len(hist) |-> hist[i].msg]

\* the terminal reports among the printer's output
TerminalReports(out) ==
  {i \in 1..Len(out) : out[i].kind \in {"response", "error"}}

\* ------------------------------------------------------------------------
\* C1 (trace.Manager).  The node store holds exactly one hop per distinct
\* identity seen, the hops carry the indexes 1..N without gaps in the order
\* in which the identities were first seen, and every event of an identity
\* stays attributed to the hop of that identity.
\* ------------------------------------------------------------------------
C1_OneHopPerIdentity ==
  /\ Len(nodes) = Cardinality(IdentitiesSeen(received))
  /\ \A k \in 1..Len(nodes) : nodes[k].NodeIndex = k
  /\ \A i \in FirstSights(received) :
       LET k == Cardinality({j \in FirstSights(received) : j <= i}) IN
       /\ k <= Len(nodes)
       /\ <<nodes[k].UserAgent, nodes[k].ForwardedFor, nodes[k].IP>>
            = Identity(received[i].msg.Headers)
  /\ \A i \in HopEvents(received) :
       /\ received[i].idx \in 1..Len(nodes)
       /\ <<nodes[received[i].idx].UserAgent,
            nodes[received[i].idx].ForwardedFor,
            nodes[received[i].idx].IP>> = Identity(received[i].msg.Headers)

\* ------------------------------------------------------------------------
\* C2 (trace.Manager).  Each hop's RequestCount equals the number of
\* processed hop-seen events that carry the hop's identity; so a repeat of
\* a header tuple adds no hop and adds one to the count of its own hop.
\* ------------------------------------------------------------------------
C2_HitCountPerIdentity ==
  /\ Len(nodes) <= Cardinality(IdentitiesSeen(received))
  /\ \A k \in 1..Len(nodes) :
       nodes[k].RequestCount =
         Cardinality({i \in HopEvents(received) :
            Identity(received[i].msg.Headers)
              = <<nodes[k].UserAgent, nodes[k].ForwardedFor, nodes[k].IP>>})

\* ------------------------------------------------------------------------
\* C4 (trace.Manager).  Done is closed and a terminal report is printed
\* only after an outcome message was received; the messages are received
\* in the order they were sent, none skipped; and every hop-seen event
\* received (all of them precede the accepted outcome) is accounted for in
\* the node list: the hop it was attributed to is there and each hop's
\* RequestCount is the number of events attributed to it.
\* ------------------------------------------------------------------------
C4_NoPrematureFinalizationNoLostUpdate ==
  /\ (done > 0 \/ TerminalReports(printed) # {})
       => OutcomeEvents(received) # {}
  /\ Len(received) <= Len(sentLog)
  /\ Msgs(received) = SubSeq(sentLog, 1, Len(received))
  /\ \A i \in OutcomeEvents(received) : i = Len(received)
  /\ \A i \in HopEvents(received) : received[i].idx \in 1..Len(GetNodes)
  /\ \A k \in 1..Len(GetNodes) :
       /\ GetNodes[k].NodeIndex = k
       /\ GetNodes[k].RequestCount =
            Cardinality({i \in HopEvents(received) : received[i].idx = k})

\* a finalized trace whose outcome followed a new hop and a repeat of it
C4_Witness ==
  /\ done = 1
  /\ Len(received) = 3
  /\ Len(nodes) = 1
  /\ nodes[1].RequestCount = 2

\* ------------------------------------------------------------------------
\* C6 (trace.Manager).  A hop-seen event sent after the trace finalized
\* (after the accepted outcome, or after the context was cancelled) is
\* never received by the control loop, so it changes nothing.
\* ------------------------------------------------------------------------
C6_NothingAfterFinalization ==
  /\ \A i \in OutcomeEvents(received) : i = Len(received)
  /\ ctxDone => \A i \in HopEvents(received) : i <= cancelAt

\* ------------------------------------------------------------------------
\* C8 (trace.Manager).  A trace that finalizes with zero hops prints the
\* explicit no-hops condition, after a response and after an error alike,
\* and with an error prints the failure reason as well.
\* ------------------------------------------------------------------------
C8_ZeroHopsReported ==
  (done > 0 /\ Len(nodes) = 0) =>
     /\ \E i \in 1..Len(printed) :
          printed[i].kind = "error" /\ printed[i].content = NoNodesText
     /\ \A j \in OutcomeEvents(received) :
          received[j].msg.Type = "Error" =>
            \E i \in 1..Len(printed) :
               /\ printed[i].kind = "error"
               /\ printed[i].content = received[j].msg.Content

\* ------------------------------------------------------------------------
\* C9 (trace.Manager).  Once the context is cancelled and the control loop
\* has stopped, completion has been signalled: t.done is closed.
\* ------------------------------------------------------------------------
C9_CancelSignalsCompletion ==
  (ctxDone /\ pollPc = "returned") => done = 1

\* ------------------------------------------------------------------------
\* C10 (trace.Manager).  Two hop-seen events are attributed to the same
\* hop if and only if their user agent, forwarded-for and source IP are
\* all equal.
\* ------------------------------------------------------------------------
C10_SameHopIffSameTuple ==
  \A i, j \in HopEvents(received) :
     (received[i].idx = received[j].idx)
       <=> (Identity(received[i].msg.Headers)
              = Identity(received[j].msg.Headers))

\* ------------------------------------------------------------------------
\* C3 (trace.TraceManager, node-operation generation).  The first outcome
\* message received is the one stored and the one reported: the pending
\* API message is never replaced, every response or failure reason written
\* is that of the first outcome, and t.done is closed at most once.
\* ------------------------------------------------------------------------
C3_FirstOutcomeWins ==
  \A f \in OutcomeEvents(tmReceived) :
     (\A g \in OutcomeEvents(tmReceived) : f <= g) =>
        /\ tmPending # NilMsg => tmPending = tmReceived[f].msg
        /\ \A i \in 1..Len(tmOut) :
             /\ tmOut[i].kind = "response" =>
                  /\ tmReceived[f].msg.Type = "API"
                  /\ tmOut[i].content = tmReceived[f].msg.Content
             /\ (tmOut[i].kind = "error" /\ tmOut[i].content # NoNodesText) =>
                  /\ tmReceived[f].msg.Type = "Error"
                  /\ tmOut[i].content = tmReceived[f].msg.Content
        /\ tmDone <= 1

\* the identity of a hop of the node list
tmIdentityOf(node) == <<node.UserAgent, node.ForwardedFor, node.IP>>

\* the event is still waiting in handleNodeMessage
tmWaiting(i) == i = Len(tmReceived) /\ tmPollPc = "handle"

\* the iteration that received the event is over
tmIterationOver(i) ==
  ~(i = Len(tmReceived)
      /\ tmPollPc \in {"handle", "handled", "notifyGet", "notifyGot"})

tmHandledLikeAny(i) ==
  LET id == Identity(tmReceived[i].msg.Headers)
      rank == Cardinality({j \in FirstSights(tmReceived) : j <= i})
  IN
  /\ ~tmWaiting(i) =>
       /\ \E k \in 1..Len(tmNodes) : tmIdentityOf(tmNodes[k]) = id
       /\ i \in FirstSights(tmReceived) =>
            /\ rank <= Len(tmNodes)
            /\ tmNodes[rank].NodeIndex = rank
            /\ tmIdentityOf(tmNodes[rank]) = id
            /\ rank = Len(tmNodes) \/ i < Len(tmReceived)
  /\ tmIterationOver(i) =>
       /\ tmReceived[i].idx \in 1..Len(tmNodes)
       /\ tmIdentityOf(tmNodes[tmReceived[i].idx]) = id
       /\ i \in FirstSights(tmReceived) =>
            \E o \in 1..Len(tmOut) :
               /\ tmOut[o].kind = "info"
               /\ tmOut[o].node.NodeIndex = tmReceived[i].idx
               /\ tmIdentityOf(tmOut[o].node) = id

\* ------------------------------------------------------------------------
\* C5 (trace.TraceManager, node-operation generation).  A hop-seen event
\* received after an API message was accepted is handled like one received
\* before it: once handled, its identity has its hop in the node list; a
\* first sighting got the next NodeIndex; once its iteration is over the
\* hop is the one the event is attributed to and a first sighting has been
\* announced; and the counts of the final report list every hop with the
\* number of events attributed to it.
\* ------------------------------------------------------------------------
C5_LateHopHandledLikeAny ==
  /\ \A i \in HopEvents(tmReceived) : tmHandledLikeAny(i)
  /\ \A o \in 1..Len(tmOut) :
       tmOut[o].kind = "counts" =>
          /\ Len(tmOut[o].counts) = Len(tmNodes)
          /\ \A i \in HopEvents(tmReceived) :
               \E c \in 1..Len(tmOut[o].counts) :
                  /\ tmOut[o].counts[c][1] = tmReceived[i].idx
                  /\ tmOut[o].counts[c][2] =
                       Cardinality({j \in HopEvents(tmReceived) :
                          tmReceived[j].idx = tmReceived[i].idx})

\* a final report with the response, after a hop that was first seen while
\* the API message was pending
C5_Witness ==
  /\ tmPollPc = "returned"
  /\ \E o \in 1..Len(tmOut) : tmOut[o].kind = "response"
  /\ \E j \in OutcomeEvents(tmReceived), i \in FirstSights(tmReceived) :
       /\ j < i
       /\ tmReceived[j].msg.Type = "API"
       /\ tmReceived[i].idx = Len(tmNodes)

\* ------------------------------------------------------------------------
\* C5 (trace.Manager).  The step that accepts an API message opens a
\* window for late hops: it leaves pollMessages receiving and t.done open,
\* so that a hop-seen event arriving next is handled like one received
\* before the outcome and is part of the final report.
\* ------------------------------------------------------------------------
C5_AcceptedResponseKeepsReceiving ==
  [][(/\ Len(received') = Len(received) + 1
      /\ received'[Len(received')].msg.Type = "API")
        => (pollPc' = "select" /\ done' = done)]_vars

\* ------------------------------------------------------------------------
\* C7 (trace.TraceManager, mutex generation).  Once an outcome message has
\* been received there is exactly one terminal report, it is the last
\* thing written, and t.done has been closed exactly once; before that
\* there is no terminal report and t.done is open.
\* ------------------------------------------------------------------------
C7_OneReportThenDoneClosed ==
  /\ Cardinality(TerminalReports(printed)) <= 1
  /\ done <= 1
  /\ OutcomeEvents(received) = {} =>
       (TerminalReports(printed) = {} /\ done = 0)
  /\ OutcomeEvents(received) # {} =>
       /\ TerminalReports(printed) = {Len(printed)}
       /\ done = 1
       /\ pollPc = "returned"

\* ------------------------------------------------------------------------
\* Vocabulary of the getNodeSignature properties
\* ------------------------------------------------------------------------

HasPipe(f) == \E i \in 1..Len(f) : f[i] = "|"

Fields(h) == <<h.UserAgent, h.ForwardedFor, h.IP>>

NoPipes(h) == \A k \in 1..3 : ~HasPipe(Fields(h)[k])

\* sig is the three fields of h in order with one '|' between neighbours
JoinedInOrder(h, sig) ==
  LET u == Len(h.UserAgent)
      f == Len(h.ForwardedFor)
      p == Len(h.IP)
  IN /\ Len(sig) = u + f + p + 2
     /\ SubSeq(sig, 1, u) = h.UserAgent
     /\ sig[u + 1] = "|"
     /\ SubSeq(sig, u + 2, u + f + 1) = h.ForwardedFor
     /\ sig[u + f + 2] = "|"
     /\ SubSeq(sig, u + f + 3, u + f + p + 2) = h.IP

\* the pair (A, "", C), (A, B, "") with B and C not empty
EmptySegmentPair(h1, h2) ==
  /\ h1 # NilHeaders /\ h2 # NilHeaders
  /\ h1.UserAgent = h2.UserAgent
  /\ h1.ForwardedFor = <<>> /\ h1.IP # <<>>
  /\ h2.ForwardedFor # <<>> /\ h2.IP = <<>>

SigCommon ==
  sigOut # <<>> =>
    /\ sigIn[1] = sigIn[2] => sigOut[1] = sigOut[2]
    /\ \A k \in 1..2 :
         sigIn[k] # NilHeaders => JoinedInOrder(sigIn[k], sigOut[k])
    /\ (/\ sigIn[1] # NilHeaders /\ sigIn[2] # NilHeaders
        /\ NoPipes(sigIn[1]) /\ NoPipes(sigIn[2])
        /\ Fields(sigIn[1]) # Fields(sigIn[2]))
         => sigOut[1] # sigOut[2]

InAnyBlock(ip, cidr) ==
  /\ Len(ip) = 4
  /\ \E c \in 1..Len(cidr) :
       /\ SubSeq(ip, 1, 3) = SubSeq(cidr[c][1], 1, 3)
       /\ cidr[c][1][4] <= ip[4]
       /\ ip[4] < cidr[c][1][4] + Pow2(32 - cidr[c][2])

\* the brand markers, in their exact casing
BrandIPS == <<"I", "P", "S">>
BrandAzure == <<"A", "z", "u", "r", "e">>
BrandOpenAI == <<"O", "p", "e", "n", "A", "I">>

\* the client-library tokens of each label, in lower case
ClientTokens ==
  [ Python |-> { <<"p", "y", "t", "h", "o", "n">>, <<"r", "e", "q", "u", "e", "s", "t", "s">> },
    Node |-> { <<"n", "o", "d", "e">>, <<"g", "o", "t">>, <<"a", "x", "i", "o", "s">>, <<"f", "e", "t", "c", "h">> },
    Go |-> { <<"g", "o", "-", "h", "t", "t", "p">>, <<"f", "a", "s", "t", "h", "t", "t", "p">> },
    Java |-> { <<"j", "a", "v", "a">>, <<"o", "k", "h", "t", "t", "p">> },
    PHP |-> { <<"p", "h", "p">>, <<"l", "a", "r", "a", "v", "e", "l">>, <<"s", "y", "m", "f", "o", "n", "y">> } ]

\* entry k of the table order Azure, OpenAI, Python, Node.js, Go, Java,
\* PHP matches the user agent
EntryMatches(k, ua) ==
  IF k = 1 THEN Contains(ua, BrandIPS) \/ Contains(ua, BrandAzure)
  ELSE IF k = 2 THEN Contains(ua, BrandOpenAI)
  ELSE LET key == <<"Python", "Node", "Go", "Java", "PHP">>[k - 2]
       IN \E t \in ClientTokens[key] : Contains(ToLower(ua), t)

\* the entries each user agent of the harness matches
MatchingEntries ==
  [ua \in PiUserAgents |-> {k \in 1..7 : EntryMatches(k, ua)}]

ClientTokensPHP == <<"p", "h", "p">>

EntryLabels ==
  <<"Azure", "maybe-OpenAI", "Python", "Node.js", "Go", "Java", "PHP">>

\* GetPlatformInfo has returned and no block matched
PiNoCidr == piOut # <<>> /\ ~InAnyBlock(piIn.ip, piIn.cidr)

\* ------------------------------------------------------------------------
\* C12.  Whenever the source address lies inside a configured block the
\* result is the vendor label, whatever the user agent.
\* ------------------------------------------------------------------------
C12_CidrOutranksPatterns ==
  (piOut # <<>> /\ InAnyBlock(piIn.ip, piIn.cidr))
     => piOut = Label("OpenAI", <<>>)

\* the vendor label for an address inside a block whose user agent
\* matches a pattern of the table
C12_Witness ==
  /\ piOut = Label("OpenAI", <<>>)
  /\ InAnyBlock(piIn.ip, piIn.cidr)
  /\ EntryMatches(3, piIn.userAgent)

\* ------------------------------------------------------------------------
\* C13.  With no block matched: a user agent holding a client-library
\* token in any casing, and no brand marker in exact casing, gets a
\* client-library label; the Azure label is given only to a user agent
\* holding "IPS" or "Azure" in exactly that casing, and the possibly-OpenAI
\* label only to one holding "OpenAI" in exactly that casing.
\* ------------------------------------------------------------------------
C13_LibrariesAnyCaseBrandsExactCase ==
  PiNoCidr =>
    LET matching == MatchingEntries[piIn.userAgent] IN
    /\ (matching # {} /\ 1 \notin matching /\ 2 \notin matching)
         => piOut.service \in {"Python", "Node.js", "Go", "Java", "PHP"}
    /\ piOut.service = "Azure" => 1 \in matching
    /\ piOut.service = "maybe-OpenAI" => 2 \in matching

\* a brand marker in another casing was classified, as no brand
C13_Witness ==
  /\ PiNoCidr
  /\ piIn.userAgent = ToUpper(BrandAzure)
  /\ piOut = Label("unknown,User-Agent:", ToUpper(BrandAzure))

\* ------------------------------------------------------------------------
\* C14.  With no block matched, a user agent matching several entries gets
\* the label of the entry that comes first in the table order Azure,
\* OpenAI, Python, Node.js, Go, Java, PHP, wherever its tokens stand.
\* ------------------------------------------------------------------------
C14_FirstEntryWins ==
  (PiNoCidr /\ piIn.userAgent # <<>>) =>
     LET matching == MatchingEntries[piIn.userAgent] IN
     \A k \in matching :
        (\A j \in matching : k <= j) => piOut.service = EntryLabels[k]

\* a PHP token followed by an Azure marker was labelled Azure
C14_Witness ==
  /\ PiNoCidr
  /\ piIn.userAgent = ClientTokensPHP \o <<"/">> \o BrandIPS
  /\ piOut.service = "Azure"

\* ------------------------------------------------------------------------
\* C15 as stated.  A user agent holding "OpenAI" in exact casing whose
\* address is outside every block is labelled possibly-OpenAI; the
\* authoritative label is returned iff the address is inside a block.
\* ------------------------------------------------------------------------
C15_OpenAITokenAsStated ==
  piOut # <<>> =>
    /\ (PiNoCidr /\ Contains(piIn.userAgent, BrandOpenAI))
         => piOut.service = "maybe-OpenAI"
    /\ piOut.service = "OpenAI" <=> InAnyBlock(piIn.ip, piIn.cidr)

\* ------------------------------------------------------------------------
\* C15 amended.  As stated, for user agents that hold neither "IPS" nor
\* "Azure": one holding such a marker too is labelled Azure.
\* ------------------------------------------------------------------------
C15_OpenAITokenNeverAuthoritative ==
  piOut # <<>> =>
    /\ (PiNoCidr /\ Contains(piIn.userAgent, BrandOpenAI))
         => piOut.service =
              IF EntryMatches(1, piIn.userAgent) THEN "Azure"
              ELSE "maybe-OpenAI"
    /\ piOut.service = "OpenAI" <=> InAnyBlock(piIn.ip, piIn.cidr)

\* the bare token "OpenAI" from an address outside every block
C15_Witness ==
  /\ PiNoCidr
  /\ piIn.userAgent = BrandOpenAI
  /\ piOut.service = "maybe-OpenAI"

\* ------------------------------------------------------------------------
\* C16.  With no block matched, the empty user agent gets the unknown
\* label, and a user agent matching no entry gets the generic label that
\* carries the user agent unchanged.
\* ------------------------------------------------------------------------
C16_EmptyAndUnmatched ==
  PiNoCidr =>
    /\ piIn.userAgent = <<>> => piOut = Label("unknown", <<>>)
    /\ (piIn.userAgent # <<>> /\ MatchingEntries[piIn.userAgent] = {})
         => piOut = Label("unknown,User-Agent:", piIn.userAgent)

\* an upper-case user agent matching nothing came back unchanged
C16_Witness ==
  /\ PiNoCidr
  /\ piIn.userAgent = ToUpper(UACurl)
  /\ piOut = Label("unknown,User-Agent:", ToUpper(UACurl))

\* ------------------------------------------------------------------------
\* Vocabulary of the main.RecordManager properties
\* ------------------------------------------------------------------------

IsPrefix(p, q) == Len(p) <= Len(q) /\ SubSeq(q, 1, Len(p)) = p

\* positions of the finish message in a sequence of strings
FinishAt(q) == {i \in 1..Len(q) : q[i] = finishMessage}

\* q up to and including its first finish message
UpToFinish(q) ==
  IF FinishAt(q) = {} THEN q
  ELSE SubSeq(q, 1, CHOOSE i \in FinishAt(q) :
                       \A j \in FinishAt(q) : i <= j)

\* ------------------------------------------------------------------------
\* C17.  The recorded list is always the beginning of the sent sequence,
\* never beyond the first finish message; once the finish message is
\* recorded the list is the sent sequence up to and including it,
\* processEvents has returned and done is closed; done is closed once,
\* and only by the return.
\* ------------------------------------------------------------------------
C17_RecordedInSendOrder ==
  /\ IsPrefix(rmMessages, UpToFinish(rmSent))
  /\ FinishAt(rmMessages) # {} =>
       /\ rmMessages = UpToFinish(rmSent)
       /\ rmPc = "returned"
  /\ rmDone = (IF rmPc = "returned" THEN 1 ELSE 0)

\* two strings, the finish message and a later string were sent, and the
\* finish message has been recorded
C17_Witness ==
  /\ Len(rmSent) = 3
  /\ rmSent[2] = finishMessage
  /\ rmSent[1] # finishMessage
  /\ Len(rmMessages) = 2
  /\ rmDone = 1

\* ------------------------------------------------------------------------
\* C18 (trace.Manager).  The node lines printed are one per hop, in the
\* order of NodeIndex, each showing the hop as it was created (IsNew); a
\* hop-seen event that resolves to an existing hop prints no node line, so
\* there are as many node lines as hops the received events resolved to.
\* ------------------------------------------------------------------------
C18_OneNotificationPerHop ==
  LET notes == SelectSeq(printed, LAMBDA o : o.kind = "node") IN
  /\ Len(notes) = Len(nodes)
  /\ \A k \in 1..Len(notes) :
       /\ notes[k].node.NodeIndex = k
       /\ notes[k].node.IsNew
       /\ notes[k].node.RequestCount = 1
       /\ notes[k].node.IP = nodes[k].IP
       /\ notes[k].node.UserAgent = nodes[k].UserAgent
  /\ Len(notes) =
       Cardinality({received[i].idx : i \in HopEvents(received)})

\* three hop-seen events were received: two hops, one of them seen twice
C18_Witness ==
  /\ Len(received) = 3
  /\ HopEvents(received) = {1, 2, 3}
  /\ Len(nodes) = 2
  /\ \E k \in 1..2 : nodes[k].RequestCount = 2

\* ------------------------------------------------------------------------
\* C19 (trace.RecordManager of record.go).  The seen set, the node counter
\* and the per-node request counts are read and written by processEvents
\* only: no access is made by a producer's goroutine, and none while
\* processEvents is in the middle of getTraceInfo.
\* ------------------------------------------------------------------------
C19_OnlyControlLoopTouchesState ==
  /\ \A a \in recAccess : a.who = "control"
  /\ recPc # "crashed"

\* ---- C20 ----
\* the 200 responses of the image handler
Served == {h \in 1..MaxRequests : imgResponse[h].status = 200}

\* the request texts of the messages SendPostRequest sent with one
ReportedRequests ==
  {sentLog[i].Request : i \in {j \in 1..Len(sentLog) :
                                 sentLog[j].Type \in {"API", "Error"}
                                 /\ sentLog[j].Request # <<>>}}

\* C20: the bait payload is generated at most once in a run and cached;
\* every 200 response of the image handler carries the bytes of that one
\* cached payload, and the captcha text of the request message is the text
\* of the same payload.
C20_OnePayloadPerRun ==
  /\ Len(generated) <= 1
  /\ captchaCache = IF generated = <<>> THEN NoCaptcha ELSE generated[1]
  /\ \A h \in Served :
       generated # <<>> /\ imgResponse[h].image = generated[1].Image
  /\ \A r \in ReportedRequests :
       generated # <<>> /\ r = requestMsg(generated[1].Text)

\* every image request was served 200 and the API message was sent
C20_Witness ==
  /\ Served = 1..MaxRequests
  /\ \E i \in 1..Len(sentLog) : sentLog[i].Type = "API"
  /\ ReportedRequests # {}

\* ---- C21 ----
\* the outcome messages SendPostRequest has put on the channel
OutcomeMessages ==
  SelectSeq(sentLog, LAMBDA m : m.Type \in {"API", "Error"})

\* C21: when SendPostRequest has returned, it has put exactly one outcome
\* message on the channel, an Error message or an API message.
C21_ExactlyOneOutcome ==
  postPc = "done" => Len(OutcomeMessages) = 1

\* ---- C22 ----
\* the control loop takes a message off the channel
ControlLoopReceives == lkPollNode \/ PollAPI \/ PollError

\* C22: a lookup started for a new hop never blocks the control loop: while
\* it is outstanding and an event waits in the channel, the loop can
\* receive that event (a hop-seen event or the outcome that finalizes).
C22_LookupNeverBlocksLoop ==
  (lookupMsg # NilMsg /\ msgChan # <<>>) => ENABLED ControlLoopReceives

\* ---- C23 ----
\* C23: TestAllChannels returns as many results as it was given configs,
\* and the i-th result carries the channel and the model of the i-th
\* config, in whatever order the goroutines finish.
C23_ResultsAlignedWithConfigs ==
  exReturned.returned =>
    /\ Len(exReturned.results) = Len(exConfigs)
    /\ \A i \in 1..Len(exConfigs) :
         /\ exReturned.results[i].Channel = exConfigs[i].Channel
         /\ exReturned.results[i].Model = exConfigs[i].Model

\* two different configs were tested, the second finished first, and the
\* call has returned
C23_Witness ==
  /\ exReturned.returned
  /\ Len(exConfigs) = 2
  /\ exConfigs[1] # exConfigs[2]
  /\ exOrder = <<2, 1>>

\* ---- C24 ----
\* C24: a call of GetNodes never blocks for good: the caller is never left
\* waiting at its send while the goroutine that would serve it has
\* returned, whether the context was cancelled or the trace has finalized.
C24_GetNodesNeverStuck ==
  ~(gnPc = "send" /\ tmOpsPc = "returned")

\* ---- C25 ----
\* the ports start .. start+9 of the search that are available
PfCandidates ==
  {q \in pfIn.start..(pfIn.start + 9) : q \in pfIn.avail}

\* the lowest of them, 0 when there is none
PfExpected ==
  IF PfCandidates = {} THEN 0
  ELSE CHOOSE q \in PfCandidates : \A r \in PfCandidates : q <= r

\* C25: findAvailablePort and FindAvailablePort return the lowest available
\* port of start .. start+9, and 0 when none of the ten is available.
C25_LowestOfTenOrZero ==
  pfOut.called => pfOut.main = PfExpected /\ pfOut.util = PfExpected

\* a search that passed two unavailable ports and returned the third,
\* although a higher port of the ten was available too
C25_Witness ==
  /\ pfOut.called
  /\ pfOut.main = pfIn.start + 2
  /\ pfOut.util = pfIn.start + 2
  /\ pfIn.start + 5 \in pfIn.avail

\* ---- C26 ----
\* C26 (trace.TraceManager).  An Error message is accepted as an API
\* message is: once either has been received the outcome is stored as
\* pending and the loop waits for late hops (waitForNode), so that the
\* report is written only when the grace timer has expired.
C26_FailedOutcomeOpensGraceWindow ==
  \A i \in OutcomeEvents(tmReceived) : tmWait /\ tmPending # NilMsg

\* ---- C27 ----
\* an iteration that handled a hop-seen event ends while an outcome is
\* pending: the step that executes nodeTimeout = time.After(...)
tmExtendsTimer ==
  /\ tmWait
  /\ tmNode # NilNode
  /\ tmPollPc \in {"handled", "notifyGot"}
  /\ tmPollPc' = "select"

\* C27 (trace.TraceManager).  Once an outcome is pending, only the arrival
\* of a new hop extends the grace timer: an event of a hop already known
\* leaves the timer running, so that repeated events cannot postpone the
\* final report.
C27_OnlyNewHopsExtendTimer ==
  [][tmExtendsTimer => tmNode.IsNew]_vars

\* ---- C28 ----
\* the run ended by cancellation: runDetection returned on ctx.Done and
\* pollMessages returned without having received an outcome
EndedByCancellation ==
  /\ rdResult = ErrCancelled
  /\ pollPc = "returned"
  /\ OutcomeEvents(received) = {}

\* the reports written that are neither a hop's line, a title, nor the
\* report of a Failed or Succeeded outcome
CancellationReports ==
  {o \in 1..Len(printed) :
     printed[o].kind \notin {"title", "node", "error", "response"}}

\* C28: when a run ends by cancellation, a report of the cancellation is
\* surfaced that differs from the report of a Failed outcome and carries
\* the hops recorded so far.
C28_CancelSurfacesPartialTrace ==
  EndedByCancellation => CancellationReports # {}

\* ---- C29 ----
\* C29 (trace.Manager).  The final report pairs the hops with the accepted
\* outcome: once an API message has been received and t.done is closed, the
\* report holds its request and response text, and when no hop was
\* recorded it holds the no-hops condition as well.
C29_ReportPairsHopsWithOutcome ==
  \A j \in OutcomeEvents(received) :
    (received[j].msg.Type = "API" /\ done > 0) =>
       /\ \E i \in 1..Len(printed) :
            /\ printed[i].kind = "response"
            /\ printed[i].request = received[j].msg.Request
            /\ printed[i].response = received[j].msg.Response
       /\ Len(nodes) = 0 =>
            \E i \in 1..Len(printed) :
               printed[i].kind = "error" /\ printed[i].content = NoNodesText

\* ---- C30 ----
\* what a hop keeps from its creation on
Frozen(n) ==
  <<n.NodeIndex, n.IP, n.UserAgent, n.ForwardedFor, n.Time, n.ServerName>>

\* C30 (trace.Manager).  No step removes a hop or changes a hop's index,
\* source IP, user agent, forwarded-for, first-seen time or classification;
\* a step that creates a hop leaves the others as they are; and a step that
\* receives a repeat event adds one to the request count of the hop the
\* event is attributed to, clears its is-new flag and changes nothing else.
C30_HopFrame ==
  [][/\ Len(nodes') >= Len(nodes)
     /\ \A k \in 1..Len(nodes) : Frozen(nodes'[k]) = Frozen(nodes[k])
     /\ Len(nodes') > Len(nodes) =>
          /\ Len(nodes') = Len(nodes) + 1
          /\ \A k \in 1..Len(nodes) : nodes'[k] = nodes[k]
     /\ (/\ Len(nodes') = Len(nodes)
         /\ Len(received') = Len(received) + 1
         /\ IsHopSeen(received'[Len(received')].msg)) =>
          \A k \in 1..Len(nodes) :
             nodes'[k] =
               IF k = received'[Len(received')].idx
                 THEN [nodes[k] EXCEPT !.RequestCount = @ + 1,
                                       !.IsNew = FALSE]
                 ELSE nodes[k]
     /\ (Len(nodes') = Len(nodes) /\ Len(received') = Len(received)) =>
          nodes' = nodes]_vars

\* two hops, one of them fetched again by an event that carried another
\* forwarded-for and a later time than the hop keeps
C30_Witness ==
  /\ Len(nodes) = 2
  /\ \E k \in 1..2 : \E i \in HopEvents(received) :
       /\ received[i].idx = k
       /\ nodes[k].RequestCount = 2
       /\ ~nodes[k].IsNew
       /\ received[i].msg.Headers.ForwardedFor # nodes[k].ForwardedFor
       /\ received[i].msg.Headers.Time # nodes[k].Time

\* ---- C31 ----
\* C31 (first TraceManager of part_016).  What GetNodes and
\* handleNodeMessage return are copies: a slice returned by GetNodes and a
\* node returned by handleNodeMessage still hold what they held at the
\* return, whatever the store has been through since.
C31_ReturnedValuesAreCopies ==
  /\ \A k \in 1..Len(alSnaps) : alArrays[alSnaps[k].arr] = alSnaps[k].was
  /\ \A k \in 1..Len(alHeld) : Deref(alHeld[k].ptr) = alHeld[k].was


\* ---- C32 ----
\* C32 (trace.Manager).  A step that creates a hop whose IP lookup failed
\* (the hop has no country) gives it the next index, the classification of
\* its headers, request count 1 and empty region and organisation, prints
\* its discovery, and leaves the control loop at its select.
C32_FailedLookupStillCreatesHop ==
  [][(/\ Len(nodes') = Len(nodes) + 1
      /\ nodes'[Len(nodes')].Country = "") =>
       LET n == nodes'[Len(nodes')]
           h == received'[Len(received')].msg.Headers
       IN
       /\ Len(received') = Len(received) + 1
       /\ received'[Len(received')].idx = Len(nodes')
       /\ n.NodeIndex = Len(nodes')
       /\ n.ServerName = serverInfo[Identity(h)]
       /\ n.RequestCount = 1
       /\ n.IsNew
       /\ n.RegionName = ""
       /\ n.Org = ""
       /\ <<n.IP, n.UserAgent, n.ForwardedFor, n.Time>> =
            <<h.IP, h.UserAgent, h.ForwardedFor, h.Time>>
       /\ printed' = printed \o NodeOutput(n)
       /\ printed'[Len(printed')] = Out("node", n, "", "", "")
       /\ pollPc' = "select"
       /\ pollPc = "select"
       /\ done' = done]_vars

\* a hop whose lookup failed has been created and printed, and a later
\* event has been processed after it
C32_Witness ==
  \E k \in 1..Len(nodes) :
    /\ nodes[k].Country = ""
    /\ nodes[k].ServerName = serverInfo[Identity(nodes[k])]
    /\ nodes[k].RequestCount >= 1
    /\ \E p \in 1..Len(printed) :
         /\ printed[p].kind = "node"
         /\ printed[p].node.NodeIndex = k
         /\ printed[p].node.Country = ""
    /\ \E i, j \in 1..Len(received) :
         /\ i < j
         /\ received[i].idx = k
         /\ received[j].idx # 0


\* ---- C33 ----
\* the handlers that finish in this step
imgFinishing ==
  {h \in 1..MaxRequests : imgPc[h] # "done" /\ imgPc'[h] = "done"}

\* C33 (server.Server).  A handler that finishes straight from the id test
\* (its id is not the run's) answers 404 and sends nothing; a handler that
\* finishes after the id test answers 200 or 500 and sends exactly one node
\* message with headers; and no step in which no handler finishes sends a
\* node message.
C33_OneEventPerAcceptedRequest ==
  [][/\ \A h \in imgFinishing :
          IF imgPc[h] = "idle"
            THEN /\ imgResponse'[h].status = 404
                 /\ sentLog' = sentLog
            ELSE /\ imgResponse'[h].status \in {200, 500}
                 /\ Len(sentLog') = Len(sentLog) + 1
                 /\ IsHopSeen(sentLog'[Len(sentLog')])
     /\ \A h \in 1..MaxRequests :
          (imgPc[h] = "idle" /\ imgPc'[h] # "done") =>
             /\ imgPc'[h] \in {"idle", "lock"}
             /\ imgPc'[h] = "lock" => sentLog' = sentLog
     /\ imgFinishing = {} =>
          \A i \in (Len(sentLog) + 1)..Len(sentLog') :
             sentLog'[i].Type \notin {"Node", "Request"}
     /\ Cardinality(imgFinishing) <= 1]_vars

\* one request was refused with 404, another failed with 500, and one node
\* message has been sent
C33_Witness ==
  /\ \E h \in 1..MaxRequests :
       imgPc[h] = "done" /\ imgResponse[h].status = 404
  /\ \E h \in 1..MaxRequests :
       imgPc[h] = "done" /\ imgResponse[h].status = 500
  /\ Cardinality({i \in 1..Len(sentLog) : IsHopSeen(sentLog[i])}) = 1


\* ---- C34 ----
\* C34 (server.Server and trace.Manager).  The image handler is never left
\* at its send for good: it is not at the send with msgChan full once
\* pollMessages has returned and nothing receives from msgChan any more.
C34_SendNeverBlocksForever ==
  ~(flPc = "send" /\ Len(msgChan) = MsgChanCap /\ pollPc = "returned")


\* ---- C35 ----
\* the goroutines between their semaphore acquire and its release
exInFlight ==
  {i \in 1..Len(exConfigs) : exPc[i] \in {"test", "store", "release"}}

\* C35 (Executor.TestAllChannels).  At most MaxConcurrency goroutines are
\* between the acquire and the release, and the semaphore holds one token
\* for each of them.
C35_AtMostMaxConcurrencyInFlight ==
  /\ Cardinality(exInFlight) <= exMax
  /\ exSem = Cardinality(exInFlight)

\* more configs than tokens: every token is held while a goroutine waits
\* at its acquire
C35_Witness ==
  /\ Len(exConfigs) > exMax
  /\ Cardinality(exInFlight) = exMax
  /\ \E i \in 1..Len(exConfigs) : exPc[i] = "acquire"


\* ---- C36 ----
\* how many entries of the sequence or function f equal r
Occurrences(f, r) == Cardinality({k \in DOMAIN f : f[k] = r})

\* the returned list holds each goroutine's result once: as many entries
\* as configs, each result as often as goroutines produced it
CtComplete ==
  /\ Len(ctReturned.results) = Len(ctConfigs)
  /\ \A i \in 1..Len(ctConfigs) :
       /\ ctPc[i] = "done"
       /\ ctLocal[i].Channel = ctConfigs[i].Channel
       /\ ctLocal[i].Model = ctConfigs[i].Model
       /\ Occurrences(ctReturned.results, ctLocal[i]) =
            Occurrences(ctLocal, ctLocal[i])

\* C36 (ChannelTest.TestAllChannels).  With MaxConcurrency at least 1 and
\* any ResultBuffer the call returns; no goroutine panics; while the call
\* has not returned some goroutine, the collector or the caller can take a
\* step; and the list returned holds exactly one result per config.
C36_ReturnsOneResultPerConfig ==
  /\ <>(ctReturned.returned)
  /\ [](\A i \in 1..Len(ctConfigs) : ctPc[i] # "panic")
  /\ [](~ctReturned.returned => ENABLED NextCt)
  /\ [](ctReturned.returned => CtComplete)

\* a call with an unbuffered result channel, one token and two configs has
\* returned both results, the second config's first
C36_Witness ==
  /\ ctReturned.returned
  /\ ctBuf = 0
  /\ ctMax = 1
  /\ Len(ctConfigs) = 2
  /\ ctLocal[1] # ctLocal[2]
  /\ ctReturned.results = <<ctLocal[2], ctLocal[1]>>


\* ---- C37 ----
\* SendPostRequest has gone past <-s.tunnel.Ready()
PostPastReady == postPc # "start"

\* the Error and API messages sent so far
TnOutcomes == SelectSeq(sentLog, LAMBDA m : m.Type \in {"Error", "API"})

\* C37 (tunnel.Tunnel and server.Server).  close(t.ready) is called once
\* when waitForURL returns and never otherwise; url is set when ready is
\* closed and does not change afterwards; while waitForURL is at its select
\* the timeout can end it; SendPostRequest goes on only after ready is
\* closed; and with an "Error:" url it sends one Error message, closes
\* done and never reaches the API call.
C37_ReadyClosedOnceUrlFirst ==
  /\ [](tnReady = IF tnWaitPc = "returned" THEN 1 ELSE 0)
  /\ [](tnReady > 0 => tnUrl # NoUrl)
  /\ [][tnReady > 0 => tnUrl' = tnUrl]_vars
  /\ [](tnWaitPc = "select" => ENABLED tnTimeout)
  /\ [](PostPastReady => tnReady = 1)
  /\ []((PostPastReady /\ HasPrefix(tnUrl, "Error:")) =>
          /\ postPc = "done"
          /\ srvDone = 1
          /\ Len(sentLog) = 1
          /\ sentLog[1].Type = "Error"
          /\ sentLog[1].Content = <<"tunnel failed", tnUrl>>)
  /\ []((tnReady > 0 /\ ~HasPrefix(tnUrl, "Error:")) =>
          /\ HasPrefix(tnUrl, "https://")
          /\ \E k \in 1..Len(tnScanned) : ScanLine(tnScanned[k]) = tnUrl)

\* the output ended without a URL and without an error, the timeout closed
\* ready, and SendPostRequest reported the tunnel error
C37_Witness ==
  /\ tnScanPc = "done"
  /\ tnUrlChan = <<>>
  /\ tnErrChan = <<>>
  /\ Len(tnScanned) = MaxLines
  /\ tnUrl = ErrorUrl("Tunnel timeout")
  /\ tnReady = 1
  /\ postPc = "done"
  /\ Len(TnOutcomes) = 1


\* ---- C38 ----
\* the trace messages processEvents has processed, in order
RecTraces == SelectSeq(recMessages, LAMBDA m : m.Type = "Trace")

\* the signature of the k-th of them
RecSig(k) == RequestSignature(RecTraces[k].Headers)

\* the first trace message with the signature of the k-th
RecFirst(k) ==
  CHOOSE j \in 1..k :
    RecSig(j) = RecSig(k) /\ \A l \in 1..(j - 1) : RecSig(l) # RecSig(k)

\* the number of the node that the signature of the k-th trace message
\* created: one node per first appearance, numbered in order
RecNodeOf(k) ==
  Cardinality({f \in 1..RecFirst(k) : RecFirst(f) = f})

\* C38 (trace.RecordManager).  Between two messages, nodeRequests[i] is the
\* number of processed trace messages whose signature created node i, for
\* every node i.
C38_RequestsCountedForMatchingNode ==
  recPc = "select" =>
    \A i \in 1..recNodeCount :
       recNodeRequests[i] =
         Cardinality({k \in 1..Len(RecTraces) : RecNodeOf(k) = i})


\* ---- C39 ----
\* the control loop receives a node message without headers in this step
ReceivesNilHeaders ==
  /\ Len(received') = Len(received) + 1
  /\ received'[Len(received')].msg.Type \in {"Node", "Request"}
  /\ received'[Len(received')].msg.Headers = NilHeaders

\* C39 (trace.Manager).  A step that receives a Node or Request message
\* whose Headers is nil takes the message off the channel, attributes it to
\* no hop, leaves the nodes, their counts, the output and done as they
\* are, and leaves the control loop at its select.
C39_NilHeadersSkipped ==
  [][ReceivesNilHeaders =>
       /\ msgChan' = Tail(msgChan)
       /\ received'[Len(received')].idx = 0
       /\ nodes' = nodes
       /\ printed' = printed
       /\ done' = done
       /\ pollPc = "select"
       /\ pollPc' = "select"]_vars

\* a message without headers was received between the events that created
\* the first and the second hop
C39_Witness ==
  /\ Len(received) = 3
  /\ received[2].msg.Type = "Node"
  /\ received[2].msg.Headers = NilHeaders
  /\ received[1].idx = 1
  /\ received[3].idx = 2
  /\ Len(nodes) = 2
  /\ nodes[1].RequestCount = 1
  /\ nodes[2].RequestCount = 1

====
